---- MODULE Spec2Model ----
(***************************************************************************)
(* Workspace lifecycle of the filter tool: port allocator, story workspace *)
(* name generator, the workspace builder (create_workspace and             *)
(* create_story_workspace), delete_workspace / stop_workspace, and the     *)
(* categorical WorkspaceCommands (create, start, stop, delete,             *)
(* force_delete) with the functors.workspace commands.                     *)
(*                                                                         *)
(* Names are sequences of one-character strings, a path is a workspace     *)
(* name with a sequence of components below the workspace root, and the    *)
(* filesystem is the set of paths that exist.  Python's None is the record *)
(* None; an exception is a result record whose kind is the error.          *)
(***************************************************************************)
EXTENDS Integers, Sequences, FiniteSets, TLC

VARIABLES
    portCall,    \* one call of find_available_port: its arguments and result
    nameCall,    \* one call of generate_story_workspace_name
    fs,          \* the paths that exist below the workspaces base directory
    world,       \* what the builder finds on disk besides the workspaces
    containers,  \* the workspaces whose compose project has live containers
    held,        \* the workspace descriptor the caller of the commands holds
    clock,       \* datetime.now(), in ticks
    last,        \* the last operation: its arguments, result and commands
    fleet,       \* the descriptors a caller with several workspaces holds
    walk,        \* the states an entity has gone through, oldest first
    builds,      \* the builds that run concurrently: where each one is
    call         \* one use of the typed layer: its operands and results

vars == <<portCall, nameCall, fs, world, containers, held, clock, last, fleet, walk,
          builds, call>>

(***************************************************************************)
(* Bounds of the model.                                                    *)
(***************************************************************************)
MaxAttempts == 3
MaxSiblingCounter == 3
MaxWorkspaces == 1

None == [has |-> FALSE, v |-> <<>>]
Some(x) == [has |-> TRUE, v |-> x]

Max(a, b) == IF a >= b THEN a ELSE b

(***************************************************************************)
(* Port allocator: workspace.py find_available_port.                       *)
(***************************************************************************)
\* The ports socket.bind accepts; any other number raises OverflowError,
\* which is not an OSError and so leaves the scan loop.
ValidPorts == 0..65535

NoResult == [kind |-> "pending", port |-> -1, probed |-> <<>>]

\* The for loop over range(start_port, start_port + max_attempts), for the
\* candidates first..final: it is left at the first candidate, in ascending
\* order, that bind accepts (the port is returned) or that is no port
\* number (OverflowError); bind raising OSError on an occupied port moves
\* on to the next candidate, and the loop running out raises RuntimeError.
\* probed lists the candidates tried, in order.
ScanPorts(first, final, occupied) ==
    LET Leaves(p) == p \notin ValidPorts \/ p \notin occupied
        Tried(n) == [i \in 1..n |-> first + i - 1]
    IN  IF \A p \in first..final : ~Leaves(p)
        THEN [kind |-> "RuntimeError", port |-> -1,
              probed |-> Tried(Max(final - first + 1, 0))]
        ELSE LET port == CHOOSE p \in first..final :
                             Leaves(p) /\ \A q \in first..(p - 1) : ~Leaves(q)
             IN  IF port \in ValidPorts
                 THEN [kind |-> "port", port |-> port,
                       probed |-> Tried(port - first + 1)]
                 ELSE [kind |-> "OverflowError", port |-> -1,
                       probed |-> Tried(port - first + 1)]

\* A scan that also tries the port one past the range.
find_available_port_inclusive(start_port, max_attempts, occupied) ==
    ScanPorts(start_port, start_port + max_attempts, occupied)

find_available_port(start_port, max_attempts, occupied) ==
    ScanPorts(start_port, start_port + max_attempts - 1, occupied)

\* Scan starts used by the port specification: the builder's first scan
\* start and its successor, and the two last valid port numbers.
PortStarts == {5433, 5434, 65534, 65535}

PortUniverse ==
    UNION {s..(s + MaxAttempts) : s \in PortStarts} \cap ValidPorts

PortInit ==
    portCall \in [start : PortStarts, max : 0..MaxAttempts,
                  occupied : SUBSET PortUniverse, result : {NoResult}]

FindPort ==
    /\ portCall.result = NoResult
    /\ portCall' = [portCall EXCEPT !.result =
           find_available_port(portCall.start, portCall.max, portCall.occupied)]
    /\ UNCHANGED <<nameCall, fs, world, containers, held, clock, last,
                   fleet, walk, builds, call>>

(***************************************************************************)
(* Name generator: workspace.py generate_story_workspace_name.             *)
(***************************************************************************)
Letters == {"a", "b", "d", "e", "s", "t", "w", "x", "A", "Z"}
DigitChars == <<"0", "1", "2", "3", "4", "5", "6", "7", "8", "9">>
AllowedChars == Letters \cup {DigitChars[i] : i \in 1..10} \cup {"-", "_"}

\* str(counter): the decimal digits of a natural number.
RECURSIVE Digits(_)
Digits(n) ==
    IF n < 10 THEN <<DigitChars[n + 1]>>
    ELSE Digits(n \div 10) \o <<DigitChars[(n % 10) + 1]>>

\* re.match(r'^[a-zA-Z0-9\-_]+$', s): one or more allowed characters, and
\* '$' also matches just before a newline that ends the string.
MatchesNamePattern(s) ==
    LET body == IF Len(s) > 0 /\ s[Len(s)] = "\n"
                THEN SubSeq(s, 1, Len(s) - 1) ELSE s
    IN  /\ Len(body) > 0
        /\ \A i \in 1..Len(body) : body[i] \in AllowedChars

\* f"{story_name}-ws-{counter}"
AutoName(story_name, counter) ==
    story_name \o <<"-", "w", "s", "-">> \o Digits(counter)

\* f"{story_name}-{custom_name}"
CustomName(story_name, custom_name) == story_name \o <<"-">> \o custom_name

\* A generator that numbers the new workspace by counting the entries.
NextFreeNameByCount(story_name, base_dir, counter) ==
    AutoName(story_name, IF base_dir.has THEN Cardinality(base_dir.v) + 1 ELSE 1)

\* A search that increments the counter before its first test.
RECURSIVE NextFreeNameAfter(_, _, _)
NextFreeNameAfter(story_name, base_dir, counter) ==
    IF ~base_dir.has \/ AutoName(story_name, counter + 1) \notin base_dir.v
    THEN AutoName(story_name, counter + 1)
    ELSE NextFreeNameAfter(story_name, base_dir, counter + 1)

\* The while loop: base_dir is None or Some(the entries of base_dir).
RECURSIVE NextFreeName(_, _, _)
NextFreeName(story_name, base_dir, counter) ==
    IF ~base_dir.has \/ AutoName(story_name, counter) \notin base_dir.v
    THEN AutoName(story_name, counter)
    ELSE NextFreeName(story_name, base_dir, counter + 1)

NoName == [kind |-> "pending", name |-> <<>>]

\* custom_name is None or Some(suffix); an empty suffix is falsy.
generate_story_workspace_name(story_name, custom_name, base_dir) ==
    IF custom_name.has /\ custom_name.v # <<>>
    THEN IF MatchesNamePattern(custom_name.v)
         THEN [kind |-> "name", name |-> CustomName(story_name, custom_name.v)]
         ELSE [kind |-> "ValueError", name |-> <<>>]
    ELSE [kind |-> "name", name |-> NextFreeName(story_name, base_dir, 1)]

Stories == {<<"s">>, <<"t", "1">>}
CustomNames == {None, Some(<<>>), Some(<<"e", "x">>), Some(<<"a", " ">>)}
BuildCustomNames == {None, Some(<<"e", "x">>), Some(<<"a", " ">>)}

SiblingUniverse ==
    {AutoName(<<"s">>, c) : c \in 1..MaxSiblingCounter}
        \cup {AutoName(<<"t", "1">>, 1), CustomName(<<"s">>, <<"e", "x">>)}

NameInit ==
    nameCall \in [story : Stories, custom : CustomNames,
                  base : {None} \cup {Some(S) : S \in SUBSET SiblingUniverse},
                  result : {NoName}]

GenerateName ==
    /\ nameCall.result = NoName
    /\ nameCall' = [nameCall EXCEPT !.result =
           generate_story_workspace_name(nameCall.story, nameCall.custom,
                                         nameCall.base)]
    /\ UNCHANGED <<portCall, fs, world, containers, held, clock, last,
                   fleet, walk, builds, call>>

IdlePort == [start |-> 5433, max |-> 0, occupied |-> {}, result |-> NoResult]
IdleName == [story |-> <<"s">>, custom |-> None, base |-> None, result |-> NoName]


(***************************************************************************)
(* The filesystem below the base directory.                                *)
(***************************************************************************)
Path(ws, rel) == [ws |-> ws, rel |-> rel]
Root(ws) == Path(ws, <<>>)
WorkspaceSubdir(ws) == Path(ws, <<"workspace">>)
KanbanDest(ws) == Path(ws, <<"workspace", "kanban">>)
RepoPath(ws) == Path(ws, <<"workspace", "repo">>)
ScriptsDst(ws) == Path(ws, <<"scripts">>)
EntrypointDst(ws) == Path(ws, <<"entrypoint.sh">>)
ComposeFile(ws) == Path(ws, <<"docker-compose.yml">>)

IsPrefix(p, q) == Len(p) <= Len(q) /\ SubSeq(q, 1, Len(p)) = p

\* shutil.rmtree(path): the path and everything below it.
rmtree(files, path) ==
    files \ {q \in files : q.ws = path.ws /\ IsPrefix(path.rel, q.rel)}

\* The names of the entries of the base directory.
Entries(files) == {p.ws : p \in {q \in files : q.rel = <<>>}}

\* The subtree of one workspace.
Tree(files, ws) == {p \in files : p.ws = ws}

(***************************************************************************)
(* types/entities.py Workspace: the frozen descriptor.  state is the       *)
(* phantom parameter the constructing expression names (Workspace[Running] *)
(* and so on); "none" marks that there is no descriptor.  ports and         *)
(* environment are sets of <<key, value>> pairs.                            *)
(***************************************************************************)
Workspace(name, template, story_name, repository, ports, environment, created_at, state) ==
    [name |-> name, path |-> Root(name), template |-> template,
     story_name |-> story_name, repository |-> repository, ports |-> ports,
     environment |-> environment, created_at |-> created_at, state |-> state]

NoDescriptor == Workspace(<<>>, "", None, None, {}, {}, 0, "none")

(***************************************************************************)
(* Workspace builder: workspace.py create_workspace.                       *)
(***************************************************************************)
TemplateFiles == <<"Dockerfile.j2", "docker-compose.yml.j2", ".env.j2">>
TemplateFileSet == {TemplateFiles[i] : i \in 1..Len(TemplateFiles)}

\* template_file.replace(".j2", "")
OutputName(template_file) ==
    CASE template_file = "Dockerfile.j2" -> "Dockerfile"
      [] template_file = "docker-compose.yml.j2" -> "docker-compose.yml"
      [] template_file = ".env.j2" -> ".env"

\* .env goes to the inner workspace directory, the rest to the root.
OutputPath(ws, template_file) ==
    IF OutputName(template_file) = ".env"
    THEN Path(ws, <<"workspace", OutputName(template_file)>>)
    ELSE Path(ws, <<OutputName(template_file)>>)

\* Program constants of the builder.
PostgresStartPort == 5433
ClaudeStartPort == 8001
JupyterStartPort == 8888
DefaultMaxAttempts == 100

\* The template directories that exist under the templates directory.
TemplateDirs == {"default", "python"}
TemplateNames == {"default", "python", "minimal"}

\* The step of a build at which the environment makes a filesystem
\* operation or a rendering raise; "none" lets every step succeed.
BuildFaults ==
    {"none", "mkdir_root", "mkdir_sub", "kanban", "scripts", "entrypoint.sh"}
        \cup TemplateFileSet

\* The ports other processes hold while a build probes.
Occupancies ==
    { {},
      {PostgresStartPort, ClaudeStartPort, JupyterStartPort},
      PostgresStartPort..(PostgresStartPort + DefaultMaxAttempts - 1),
      JupyterStartPort..(JupyterStartPort + DefaultMaxAttempts - 1) }

\* world.present: the template files each template directory holds;
\* world.kanban: "link" when .filter/kanban exists, "copy" when only the
\* legacy kanban directory exists, "none" when neither does;
\* world.extras: whether the scripts directory and entrypoint.sh exist.
Worlds ==
    [present : SUBSET TemplateFileSet, kanban : {"link", "copy", "none"},
     extras : BOOLEAN]

Built(files, error, failed, ret) ==
    [fs |-> files, error |-> error, failed |-> failed, ret |-> ret]

\* The loop over template_files, from the i-th on.
RECURSIVE RenderTemplates(_, _, _, _, _)
RenderTemplates(i, files, ws, W, fault) ==
    IF i > Len(TemplateFiles) THEN [fs |-> files, failed |-> "none"]
    ELSE LET template_file == TemplateFiles[i]
         IN  IF template_file \notin W.present
             THEN RenderTemplates(i + 1, files, ws, W, fault)
             ELSE IF fault = template_file
             THEN [fs |-> files, failed |-> template_file]
             ELSE RenderTemplates(i + 1,
                      files \cup {OutputPath(ws, template_file)}, ws, W, fault)

\* symlink_to or copytree of the kanban directory.
LinkKanban(files, ws, W, fault) ==
    IF W.kanban = "none" THEN [fs |-> files, failed |-> "none"]
    ELSE IF fault = "kanban" THEN [fs |-> files, failed |-> "kanban"]
    ELSE [fs |-> files \cup {KanbanDest(ws)}, failed |-> "none"]

\* copytree of scripts, then copy2 of entrypoint.sh.
CopyBuildContext(files, ws, W, fault) ==
    IF ~W.extras THEN [fs |-> files, failed |-> "none"]
    ELSE IF fault = "scripts" THEN [fs |-> files, failed |-> "scripts"]
    ELSE IF fault = "entrypoint.sh"
    THEN [fs |-> files \cup {ScriptsDst(ws)}, failed |-> "entrypoint.sh"]
    ELSE [fs |-> files \cup {ScriptsDst(ws), EntrypointDst(ws)},
          failed |-> "none"]

\* The ports the build scans for: Postgres, Claude, and Jupyter for the
\* python template.  TRUE when every scan returns a port.
PortsFound(template_name, occupied) ==
    LET found(start) ==
            find_available_port(start, DefaultMaxAttempts, occupied).kind = "port"
    IN  /\ found(PostgresStartPort)
        /\ found(ClaudeStartPort)
        /\ template_name = "python" => found(JupyterStartPort)

\* A create_workspace that looks for the target directory only after the
\* template directory and the ports.
create_workspace_ports_first(files, ws, template_name, occupied, fault, W) ==
    IF template_name \notin TemplateDirs
    THEN Built(files, "TemplateNotFound", "template_dir", None)
    ELSE IF ~PortsFound(template_name, occupied)
    THEN Built(files, "ResourceExhausted", "ports", None)
    ELSE IF Root(ws) \in files
    THEN Built(files, "AlreadyExists", "exists", None)
    ELSE Built(files \cup {Root(ws), WorkspaceSubdir(ws)}, "none", "none",
               Some(ws))

\* A create_workspace that makes the two directories before it looks for
\* the template directory and the ports.
create_workspace_mkdir_first(files, ws, template_name, occupied, fault, W) ==
    LET dirs == files \cup {Root(ws), WorkspaceSubdir(ws)}
    IN  IF Root(ws) \in files
        THEN Built(files, "AlreadyExists", "exists", None)
        ELSE IF template_name \notin TemplateDirs
        THEN Built(dirs, "TemplateNotFound", "template_dir", None)
        ELSE IF ~PortsFound(template_name, occupied)
        THEN Built(dirs, "ResourceExhausted", "ports", None)
        ELSE Built(dirs, "none", "none", Some(ws))

create_workspace(files, ws, template_name, occupied, fault, W) ==
    IF Root(ws) \in files
    THEN Built(files, "AlreadyExists", "exists", None)
    ELSE IF template_name \notin TemplateDirs
    THEN Built(files, "TemplateNotFound", "template_dir", None)
    ELSE IF ~PortsFound(template_name, occupied)
    THEN Built(files, "ResourceExhausted", "ports", None)
    ELSE IF fault = "mkdir_root"
    THEN Built(files, "OSError", "mkdir_root", None)
    ELSE IF fault = "mkdir_sub"
    THEN Built(files \cup {Root(ws)}, "OSError", "mkdir_sub", None)
    ELSE
    LET dirs == files \cup {Root(ws), WorkspaceSubdir(ws)}
        rendered == RenderTemplates(1, dirs, ws, W, fault)
        linked == LinkKanban(rendered.fs, ws, W, fault)
        copied == CopyBuildContext(linked.fs, ws, W, fault)
    IN  IF rendered.failed # "none"
        THEN Built(rendered.fs, "TemplateRenderError", rendered.failed, None)
        ELSE IF linked.failed # "none"
        THEN Built(linked.fs, "OSError", linked.failed, None)
        ELSE IF copied.failed # "none"
        THEN Built(copied.fs, "OSError", copied.failed, None)
        ELSE Built(copied.fs, "none", "none", Some(ws))

(***************************************************************************)
(* workspace.py clone_git_repository and create_story_workspace.           *)
(***************************************************************************)
\* What git does for one build: no URL configured, or the outcome of
\* git clone and of the two checkout attempts.
GitOutcomes ==
    {"no_url", "clone_nonzero", "clone_exception", "branch_created",
     "branch_checked_out", "checkout_failed"}

\* Returns the filesystem, whether RuntimeError is raised, and the git
\* commands run.
clone_git_repository(files, ws, git) ==
    CASE git = "clone_nonzero" ->
           [fs |-> files, raised |-> TRUE, cmds |-> <<"git clone">>]
      [] git = "clone_exception" ->
           [fs |-> files, raised |-> TRUE, cmds |-> <<"git clone">>]
      [] git = "branch_created" ->
           [fs |-> files \cup {RepoPath(ws)}, raised |-> FALSE,
            cmds |-> <<"git clone", "git checkout -b">>]
      [] OTHER ->
           [fs |-> files \cup {RepoPath(ws)}, raised |-> FALSE,
            cmds |-> <<"git clone", "git checkout -b", "git checkout">>]

\* The stories find_story_in_projects finds.
ProjectStories == {<<"s">>}

StoryBuilt(files, error, failed, ret, cmds) ==
    [fs |-> files, error |-> error, failed |-> failed, ret |-> ret,
     cmds |-> cmds]

\* A create_story_workspace that treats a failed clone as a build failure.
create_story_workspace_strict(files, story_name, custom_name, template_name, occupied, fault, git, W) ==
    LET named == generate_story_workspace_name(story_name, custom_name,
                                               Some(Entries(files)))
        built == create_workspace(files, named.name, template_name,
                                  occupied, fault, W)
        cloned == clone_git_repository(built.fs, named.name, git)
    IN  IF story_name \notin ProjectStories \/ named.kind # "name"
        THEN StoryBuilt(files, "NotFound", "story", None, <<>>)
        ELSE IF built.error # "none" \/ git = "no_url"
        THEN StoryBuilt(built.fs, built.error, built.failed, built.ret, <<>>)
        ELSE IF cloned.raised
        THEN StoryBuilt(rmtree(cloned.fs, Root(named.name)),
                        "ExternalToolFailure", "clone", None, cloned.cmds)
        ELSE StoryBuilt(cloned.fs, "none", "none", built.ret, cloned.cmds)

create_story_workspace(files, story_name, custom_name, template_name, occupied, fault, git, W) ==
    IF story_name \notin ProjectStories
    THEN StoryBuilt(files, "NotFound", "story", None, <<>>)
    ELSE
    LET named == generate_story_workspace_name(story_name, custom_name,
                                               Some(Entries(files)))
    IN  IF named.kind # "name"
        THEN StoryBuilt(files, "InvalidName", "custom_name", None, <<>>)
        ELSE
        LET built == create_workspace(files, named.name, template_name,
                                      occupied, fault, W)
            cloned == clone_git_repository(built.fs, named.name, git)
        IN  IF built.error # "none"
            THEN StoryBuilt(built.fs, built.error, built.failed, None, <<>>)
            ELSE IF git = "no_url"
            THEN StoryBuilt(built.fs, "none", "none", built.ret, <<>>)
            ELSE IF cloned.raised
            THEN StoryBuilt(cloned.fs, "none", "clone", built.ret, cloned.cmds)
            ELSE StoryBuilt(cloned.fs, "none",
                            IF git = "checkout_failed" THEN "checkout"
                            ELSE "none",
                            built.ret, cloned.cmds)

(***************************************************************************)
(* The last operation.                                                     *)
(***************************************************************************)
\* op: the operation; name: the workspace it named (the generated name for
\* a story build); error: "none" or the kind of the error raised; failed:
\* the step that failed, also when the failure was tolerated; ret: the
\* returned workspace; cmds: the git and docker commands run, in order;
\* removed: the paths removed, in order; force: the force argument of a
\* delete; running: whether the operation's status query showed containers
\* (for the commands over descriptors: whether the workspace had live
\* containers when the command began); exit: what the docker command the
\* operation is about did.
Op(op, name, error, failed, ret, cmds, removed) ==
    [op |-> op, name |-> name, error |-> error, failed |-> failed,
     ret |-> ret, cmds |-> cmds, removed |-> removed,
     force |-> FALSE, running |-> FALSE, exit |-> "none"]

NoOp == Op("none", <<>>, "none", "none", None, <<>>, <<>>)

\* The names create_workspace is called with: a plain one, a story
\* workspace's, and one with a character outside the pattern.
DirectNames == {<<"d">>, AutoName(<<"s">>, 1), <<"a", " ">>}

\* The base directory of the model holds at most MaxWorkspaces entries: a
\* build of a name that is not there yet needs room.
HasRoom(files, ws) == Cardinality(Entries(files) \cup {ws}) <= MaxWorkspaces

\* What the environment does to one build: the ports held by others, the
\* step made to fail and what git does.  One departure from the quiet
\* environment at a time.
Quiet == [occupied |-> {}, fault |-> "none", git |-> "no_url"]

Environments ==
    {[Quiet EXCEPT !.fault = f] : f \in BuildFaults}
        \cup {[Quiet EXCEPT !.occupied = o] : o \in Occupancies}
        \cup {[Quiet EXCEPT !.git = g] : g \in GitOutcomes}

\* The environments a build of ws is tried in: every one, also for a
\* build that fails before the environment can make a difference.
EnvironmentsFor(files, ws, template_name) == Environments

CreateWorkspace ==
    \E ws \in DirectNames, template_name \in TemplateNames :
      /\ HasRoom(fs, ws)
      /\ \E env \in {e \in EnvironmentsFor(fs, ws, template_name) :
                        e.git = "no_url"} :
        LET r == create_workspace(fs, ws, template_name, env.occupied,
                                  env.fault, world)
        IN  /\ fs' = r.fs
            /\ last' = Op("create_workspace", ws, r.error, r.failed, r.ret,
                          <<>>, <<>>)
            /\ UNCHANGED <<portCall, nameCall, world, containers, held,
                           clock, fleet, walk, builds, call>>

CreateStoryWorkspace ==
    \E story_name \in Stories, custom_name \in BuildCustomNames,
       template_name \in TemplateNames :
      LET named == generate_story_workspace_name(story_name, custom_name,
                                                 Some(Entries(fs)))
      IN
      /\ HasRoom(fs, named.name)
      /\ \E env \in IF story_name \in ProjectStories /\ named.kind = "name"
                     THEN EnvironmentsFor(fs, named.name, template_name)
                     ELSE {Quiet} :
        LET r == create_story_workspace(fs, story_name, custom_name,
                     template_name, env.occupied, env.fault, env.git, world)
        IN  /\ fs' = r.fs
            /\ last' = Op("create_story_workspace", named.name, r.error,
                          r.failed, r.ret, r.cmds, <<>>)
            /\ UNCHANGED <<portCall, nameCall, world, containers, held,
                           clock, fleet, walk, builds, call>>

BuildInit ==
    /\ fs = {}
    /\ world \in Worlds
    /\ containers = {}
    /\ held = NoDescriptor
    /\ clock = 0
    /\ last = NoOp
    /\ fleet = {}
    /\ call = <<>>
    /\ walk = <<>>
    /\ builds = <<>>
    /\ portCall = IdlePort
    /\ nameCall = IdleName

IdleWorld == [present |-> TemplateFileSet, kanban |-> "none", extras |-> FALSE]

IdleDisk ==
    /\ fs = {}
    /\ world = IdleWorld
    /\ containers = {}
    /\ held = NoDescriptor
    /\ clock = 0
    /\ last = NoOp
    /\ fleet = {}
    /\ call = <<>>
    /\ walk = <<>>
    /\ builds = <<>>

BuildNext == CreateWorkspace \/ CreateStoryWorkspace

(***************************************************************************)
(* workspace.py stop_workspace, cleanup_git_repository, delete_workspace.  *)
(***************************************************************************)
\* What `docker compose ps -q` does: "listed" prints the ids of the
\* workspace's live containers, "unreachable" exits non-zero with nothing
\* on stdout, "no_docker" is subprocess.run raising FileNotFoundError.
PsOutcomes == {"listed", "unreachable", "no_docker"}

\* What `docker compose down` does: exit 0 with the containers gone, or a
\* non-zero exit with the containers left as they were.
DownOutcomes == {"ok", "nonzero"}

\* The step of a delete whose rmtree the environment makes raise.
DeleteFaults == {"none", "rmtree_repo", "rmtree_root"}

Stopped(live, error, cmds) == [containers |-> live, error |-> error, cmds |-> cmds]

stop_workspace(files, live, ws, down) ==
    IF Root(ws) \notin files THEN Stopped(live, "NotFound", <<>>)
    ELSE IF ComposeFile(ws) \notin files THEN Stopped(live, "NoComposeFile", <<>>)
    ELSE IF down = "ok"
    THEN Stopped(live \ {ws}, "none", <<"docker compose down">>)
    ELSE Stopped(live, "ExternalToolFailure", <<"docker compose down">>)

\* rmtree of workspace/repo when it exists; its failure is only logged.
cleanup_git_repository(files, ws, fault) ==
    IF RepoPath(ws) \notin files \/ fault = "rmtree_repo"
    THEN [fs |-> files, removed |-> <<>>]
    ELSE [fs |-> rmtree(files, RepoPath(ws)), removed |-> <<RepoPath(ws)>>]

Deleted(files, live, error, cmds, removed, running) ==
    [fs |-> files, containers |-> live, error |-> error, cmds |-> cmds,
     removed |-> removed, running |-> running]

\* The removal that ends delete_workspace, after the stop attempt.
RemoveWorkspace(files, live, ws, fault, cmds, is_running) ==
    LET cleaned == cleanup_git_repository(files, ws, fault)
    IN  IF fault = "rmtree_root"
        THEN Deleted(cleaned.fs, live, "DeleteFailed", cmds, cleaned.removed,
                     is_running)
        ELSE Deleted(rmtree(cleaned.fs, Root(ws)), live, "none", cmds,
                     Append(cleaned.removed, Root(ws)), is_running)

\* A delete_workspace that stops and deletes a running workspace whether
\* or not force is given.
delete_workspace_unchecked(files, live, ws, force, ps, down, fault) ==
    LET is_running == ps = "listed" /\ ws \in live
        stopped == stop_workspace(files, live, ws, down)
    IN  IF Root(ws) \notin files
        THEN Deleted(files, live, "NotFound", <<>>, <<>>, FALSE)
        ELSE IF is_running
        THEN RemoveWorkspace(files, stopped.containers, ws, fault,
                 <<"docker compose ps -q">> \o stopped.cmds, is_running)
        ELSE RemoveWorkspace(files, live, ws, fault,
                 <<"docker compose ps -q">>, is_running)

\* A forced delete that gives up when the stop fails.
delete_workspace_stop_or_fail(files, live, ws, force, ps, down, fault) ==
    LET is_running == ps = "listed" /\ ws \in live
        stopped == stop_workspace(files, live, ws, down)
    IN  IF Root(ws) \notin files
        THEN Deleted(files, live, "NotFound", <<>>, <<>>, FALSE)
        ELSE IF is_running /\ ~force
        THEN Deleted(files, live, "Busy", <<"docker compose ps -q">>, <<>>,
                     is_running)
        ELSE IF is_running /\ stopped.error # "none"
        THEN Deleted(files, live, stopped.error,
                     <<"docker compose ps -q">> \o stopped.cmds, <<>>,
                     is_running)
        ELSE RemoveWorkspace(files, stopped.containers, ws, fault,
                 <<"docker compose ps -q">> \o stopped.cmds, is_running)

delete_workspace(files, live, ws, force, ps, down, fault) ==
    IF Root(ws) \notin files
    THEN Deleted(files, live, "NotFound", <<>>, <<>>, FALSE)
    ELSE IF ps = "no_docker"
    THEN Deleted(files, live, "FileNotFoundError",
                 <<"docker compose ps -q">>, <<>>, FALSE)
    ELSE
    LET is_running == ps = "listed" /\ ws \in live
        stopped == stop_workspace(files, live, ws, down)
    IN  IF is_running /\ ~force
        THEN Deleted(files, live, "Busy", <<"docker compose ps -q">>, <<>>,
                     is_running)
        ELSE IF is_running /\ force
        THEN RemoveWorkspace(files, stopped.containers, ws, fault,
                 <<"docker compose ps -q">> \o stopped.cmds, is_running)
        ELSE RemoveWorkspace(files, live, ws, fault,
                 <<"docker compose ps -q">>, is_running)

\* The workspaces the delete specification starts from: whatever one build
\* of a story workspace leaves in an empty base directory, in any world
\* and any environment.
BuiltTrees ==
    {create_story_workspace({}, <<"s">>, None, template_name, env.occupied,
                            env.fault, env.git, W).fs :
        template_name \in TemplateDirs, env \in Environments, W \in Worlds}

DeleteNames == {AutoName(<<"s">>, 1), <<"d">>}

\* The user brings the workspace up: `cd {workspace_dir} && docker compose up`.
ComposeUp ==
    \E ws \in DeleteNames :
        /\ ComposeFile(ws) \in fs
        /\ ws \notin containers
        /\ containers' = containers \cup {ws}
        /\ last' = Op("compose_up", ws, "none", "none", None,
                      <<"docker compose up">>, <<>>)
        /\ UNCHANGED <<portCall, nameCall, fs, world, held, clock, fleet,
                       walk, builds, call>>

StopWorkspace ==
    \E ws \in DeleteNames, down \in DownOutcomes :
        LET r == stop_workspace(fs, containers, ws, down)
        IN  /\ containers' = r.containers
            /\ last' = Op("stop_workspace", ws, r.error, "none", None,
                          r.cmds, <<>>)
            /\ UNCHANGED <<portCall, nameCall, fs, world, held, clock,
                           fleet, walk, builds, call>>

DeleteWorkspace ==
    \E ws \in DeleteNames, force \in BOOLEAN, ps \in PsOutcomes,
       down \in DownOutcomes, fault \in DeleteFaults :
        LET r == delete_workspace(fs, containers, ws, force, ps, down, fault)
        IN  /\ fs' = r.fs
            /\ containers' = r.containers
            /\ last' = [Op("delete_workspace", ws, r.error, fault, None,
                           r.cmds, r.removed)
                            EXCEPT !.force = force, !.running = r.running]
            /\ UNCHANGED <<portCall, nameCall, world, held, clock, fleet,
                           walk, builds, call>>

DeleteInit ==
    /\ fs \in BuiltTrees
    /\ world = IdleWorld
    /\ containers = {}
    /\ held = NoDescriptor
    /\ clock = 0
    /\ last = NoOp
    /\ fleet = {}
    /\ call = <<>>
    /\ walk = <<>>
    /\ builds = <<>>
    /\ portCall = IdlePort
    /\ nameCall = IdleName

DeleteNext == ComposeUp \/ StopWorkspace \/ DeleteWorkspace

(***************************************************************************)
(* validation.py and operations/workspace_operations.py.                   *)
(***************************************************************************)
Alphanumerics == Letters \cup {DigitChars[i] : i \in 1..10}
MaxNameLength == 100

\* InputValidator.validate_name: TRUE when the name is returned, FALSE when
\* ValidationError is raised.
validate_name(name) ==
    /\ name # <<>>
    /\ Len(name) <= MaxNameLength
    /\ MatchesNamePattern(name)
    /\ name[1] \in Alphanumerics

ValidTemplates == {"default", "minimal", "python"}
validate_template(template) == template \in ValidTemplates

\* The step of WorkspaceCommands.create that the environment makes raise.
CreateFaults ==
    {"none", "which_docker", "mkdir_root", "mkdir_sub", "kanban_mkdir",
     "kanban_copy", "docker_config", "env_file"}

\* The one entry of the source kanban directory, and the environment file.
KanbanItem(ws) == Path(ws, <<"workspace", "kanban", "stories">>)
EnvFile(ws) == Path(ws, <<"workspace", ".env">>)

\* Returns the filesystem, whether an exception left the function, and the
\* list of created paths it returned.
create_directory_structure(files, ws, fault) ==
    IF fault = "mkdir_root"
    THEN [fs |-> files, raised |-> TRUE, paths |-> <<>>]
    ELSE IF fault = "mkdir_sub"
    THEN [fs |-> files \cup {Root(ws)}, raised |-> TRUE, paths |-> <<>>]
    ELSE [fs |-> files \cup {Root(ws), WorkspaceSubdir(ws)}, raised |-> FALSE,
          paths |-> <<Root(ws), WorkspaceSubdir(ws)>>]

copy_kanban_structure(files, ws, W, fault) ==
    IF fault = "kanban_mkdir"
    THEN [fs |-> files, raised |-> TRUE, paths |-> <<>>]
    ELSE IF W.kanban # "copy"
    THEN [fs |-> files \cup {KanbanDest(ws)}, raised |-> FALSE,
          paths |-> <<KanbanDest(ws)>>]
    ELSE IF fault = "kanban_copy"
    THEN [fs |-> files \cup {KanbanDest(ws)}, raised |-> TRUE, paths |-> <<>>]
    ELSE [fs |-> files \cup {KanbanDest(ws), KanbanItem(ws)}, raised |-> FALSE,
          paths |-> <<KanbanDest(ws), KanbanItem(ws)>>]

\* copy2 of every file of the template directory, under its own name.
create_docker_config(files, ws, template, W, fault) ==
    IF fault = "docker_config" /\ W.present # {}
    THEN [fs |-> files, raised |-> TRUE]
    ELSE [fs |-> files \cup {Path(ws, <<f>>) : f \in W.present},
          raised |-> FALSE]

create_environment_file(files, ws, fault) ==
    IF fault = "env_file" THEN [fs |-> files, raised |-> TRUE]
    ELSE [fs |-> files \cup {EnvFile(ws)}, raised |-> FALSE]

\* for path in reversed(paths): remove it when it exists.
RECURSIVE cleanup_paths(_, _)
cleanup_paths(files, paths) ==
    IF paths = <<>> THEN [fs |-> files, removed |-> <<>>]
    ELSE LET path == paths[Len(paths)]
             there == path \in files
             rest == cleanup_paths(IF there THEN rmtree(files, path) ELSE files,
                                   SubSeq(paths, 1, Len(paths) - 1))
         IN  [fs |-> rest.fs,
              removed |-> (IF there THEN <<path>> ELSE <<>>) \o rest.removed]

BasePort == 8000
AllocatedPostgresPort == 5433
AllocatedJupyterPort == 8888

allocate_ports(template) ==
    {<<"claude", BasePort + 1>>}
        \cup (IF template \in {"default", "python"}
              THEN {<<"postgres", AllocatedPostgresPort>>} ELSE {})
        \cup (IF template = "python"
              THEN {<<"jupyter", AllocatedJupyterPort>>} ELSE {})

\* TRUE when update_docker_ports raises: there is a compose file and it
\* does not load as a mapping.
update_docker_ports(files, ws, yaml) ==
    ComposeFile(ws) \in files /\ yaml = "invalid"

\* What a docker compose command does when the environment offers
\* `outcome`: without the working directory or without the docker
\* executable the subprocess cannot start, and without a compose file the
\* command exits non-zero.  No caller passes a timeout.
DockerOutcomes == {"ok", "nonzero", "no_docker"}

run_docker_command(files, ws, outcome) ==
    IF Root(ws) \notin files THEN "missing_cwd"
    ELSE IF ComposeFile(ws) \notin files /\ outcome = "ok" THEN "nonzero"
    ELSE outcome

\* The exception run_command raises with check=True.
ErrorOf(outcome) ==
    CASE outcome = "nonzero" -> "CalledProcessError"
      [] outcome = "no_docker" -> "FileNotFoundError"
      [] outcome = "missing_cwd" -> "FileNotFoundError"
      [] OTHER -> "none"

(***************************************************************************)
(* commands/workspace.py WorkspaceCommands.                                *)
(***************************************************************************)
Cmd(files, live, error, failed, ret, cmds, removed) ==
    [fs |-> files, containers |-> live, error |-> error, failed |-> failed,
     ret |-> ret, cmds |-> cmds, removed |-> removed]

create_action(files, live, args, now, fault, W) ==
    IF ~validate_name(args.name)
    THEN Cmd(files, live, "ValidationError", "workspace_name", NoDescriptor,
             <<>>, <<>>)
    ELSE IF ~validate_template(args.template)
    THEN Cmd(files, live, "ValidationError", "template", NoDescriptor,
             <<>>, <<>>)
    ELSE IF Root(args.name) \in files
    THEN Cmd(files, live, "ValidationError", "exists", NoDescriptor,
             <<>>, <<>>)
    ELSE IF fault = "which_docker"
    THEN Cmd(files, live, "RuntimeError", "which_docker", NoDescriptor,
             <<>>, <<>>)
    ELSE
    LET ws == args.name
        made == create_directory_structure(files, ws, fault)
        kanban == copy_kanban_structure(made.fs, ws, W, fault)
        tracked == made.paths \o kanban.paths
        docker == create_docker_config(kanban.fs, ws, args.template, W, fault)
        env == create_environment_file(docker.fs, ws, fault)
        \* WorkspaceResourceManager.__exit__ with an exception: cleanup_all.
        Rollback(reached, created_paths) ==
            LET cleaned == cleanup_paths(reached, created_paths)
            IN  Cmd(cleaned.fs, live, "OSError", fault, NoDescriptor, <<>>,
                    cleaned.removed)
    IN  IF made.raised THEN Rollback(made.fs, <<>>)
        ELSE IF kanban.raised THEN Rollback(kanban.fs, made.paths)
        ELSE IF docker.raised THEN Rollback(docker.fs, tracked)
        ELSE IF env.raised THEN Rollback(env.fs, tracked)
        ELSE Cmd(env.fs, live, "none", "none",
                 Workspace(ws, args.template, args.story_name, None, {}, {},
                           now, "Created"),
                 <<>>, <<>>)

\* The containers `docker compose up -d` leaves behind when it fails.
PartlyStarted(files, live, ws, started, partial) ==
    IF started = "nonzero" /\ partial /\ ComposeFile(ws) \in files
    THEN live \cup {ws} ELSE live

\* A start that does not bring the services down after a failed up.
start_action_no_cleanup(files, live, workspace, yaml, up, partial, down) ==
    LET ws == workspace.name
        started == run_docker_command(files, ws, up)
    IN  IF update_docker_ports(files, ws, yaml)
        THEN Cmd(files, live, "RuntimeError", "update_docker_ports",
                 NoDescriptor, <<>>, <<>>)
        ELSE IF started = "ok"
        THEN Cmd(files, live \cup {ws}, "none", "none",
                 Workspace(ws, workspace.template, workspace.story_name, None,
                           allocate_ports(workspace.template),
                           workspace.environment, workspace.created_at,
                           "Running"),
                 <<"docker compose up -d">>, <<>>)
        ELSE Cmd(files, PartlyStarted(files, live, ws, started, partial),
                 ErrorOf(started), "compose_up", NoDescriptor,
                 <<"docker compose up -d">>, <<>>)

start_action(files, live, workspace, yaml, up, partial, down) ==
    LET ws == workspace.name
        ports == allocate_ports(workspace.template)
        started == run_docker_command(files, ws, up)
        began == PartlyStarted(files, live, ws, started, partial)
        cleaned == run_docker_command(files, ws, down)
    IN  IF update_docker_ports(files, ws, yaml)
        THEN Cmd(files, live, "RuntimeError", "update_docker_ports",
                 NoDescriptor, <<>>, <<>>)
        ELSE IF started = "ok"
        THEN Cmd(files, live \cup {ws}, "none", "none",
                 Workspace(ws, workspace.template, workspace.story_name, None,
                           ports, workspace.environment, workspace.created_at,
                           "Running"),
                 <<"docker compose up -d">>, <<>>)
        ELSE Cmd(files, IF cleaned = "ok" THEN began \ {ws} ELSE began,
                 ErrorOf(started), "compose_up", NoDescriptor,
                 <<"docker compose up -d", "docker compose down">>, <<>>)

\* A stop that hands the ports of its input on to the Stopped descriptor.
stop_action_keeping_ports(files, live, workspace, down) ==
    LET ws == workspace.name
        stopped == run_docker_command(files, ws, down)
    IN  IF stopped = "ok"
        THEN Cmd(files, live \ {ws}, "none", "none",
                 Workspace(ws, workspace.template, workspace.story_name, None,
                           workspace.ports, workspace.environment,
                           workspace.created_at, "Stopped"),
                 <<"docker compose down">>, <<>>)
        ELSE Cmd(files, live, ErrorOf(stopped), "compose_down", NoDescriptor,
                 <<"docker compose down">>, <<>>)

stop_action(files, live, workspace, down) ==
    LET ws == workspace.name
        stopped == run_docker_command(files, ws, down)
    IN  IF stopped = "ok"
        THEN Cmd(files, live \ {ws}, "none", "none",
                 Workspace(ws, workspace.template, workspace.story_name, None,
                           {}, workspace.environment, workspace.created_at,
                           "Stopped"),
                 <<"docker compose down">>, <<>>)
        ELSE Cmd(files, live, ErrorOf(stopped), "compose_down", NoDescriptor,
                 <<"docker compose down">>, <<>>)

delete_action(files, live, workspace, fault) ==
    LET ws == workspace.name
    IN  IF Root(ws) \notin files
        THEN Cmd(files, live, "none", "none", NoDescriptor, <<>>, <<>>)
        ELSE IF fault = "rmtree_root"
        THEN Cmd(files, live, "OSError", "rmtree_root", NoDescriptor,
                 <<>>, <<>>)
        ELSE Cmd(rmtree(files, Root(ws)), live, "none", "none", NoDescriptor,
                 <<>>, <<Root(ws)>>)

force_delete_action(files, live, workspace, down, fault) ==
    LET ws == workspace.name
        stopped == run_docker_command(files, ws, down)
        after == IF stopped = "ok" THEN live \ {ws} ELSE live
        cmds == <<"docker compose down -v">>
    IN  IF Root(ws) \notin files
        THEN Cmd(files, after, "none", "none", NoDescriptor, cmds, <<>>)
        ELSE IF fault = "rmtree_root"
        THEN Cmd(files, after, "OSError", "rmtree_root", NoDescriptor,
                 cmds, <<>>)
        ELSE Cmd(rmtree(files, Root(ws)), after, "none", "none", NoDescriptor,
                 cmds, <<Root(ws)>>)

\* command_algebra.py FilterCommand.compose: the first command, then the
\* other on what the first returned and left behind; an exception of the
\* first ends the composite.  `second` is the other command's result on
\* the first's.
compose(first, second) ==
    IF first.error # "none" THEN first
    ELSE [second EXCEPT !.cmds = first.cmds \o second.cmds,
                        !.removed = first.removed \o second.removed]

stop_and_delete_workspace(files, live, workspace, down, fault) ==
    LET first == stop_action(files, live, workspace, down)
    IN  compose(first,
                delete_action(first.fs, first.containers, first.ret, fault))

(***************************************************************************)
(* functors/workspace.py: the commands over descriptors.                   *)
(***************************************************************************)
create_workspace_command(files, live, name, template, now, fault) ==
    LET made == create_directory_structure(files, name, fault)
    IN  IF made.raised
        THEN Cmd(made.fs, live, "OSError", fault, NoDescriptor, <<>>, <<>>)
        ELSE Cmd(made.fs, live, "none", "none",
                 Workspace(name, template, None, None, {}, {}, now, "Created"),
                 <<>>, <<>>)

start_workspace_command(workspace) ==
    Workspace(workspace.name, workspace.template, workspace.story_name,
              workspace.repository,
              {<<"claude", 8001>>, <<"postgres", 5433>>},
              workspace.environment, workspace.created_at, "Running")

stop_workspace_command(workspace) ==
    Workspace(workspace.name, workspace.template, workspace.story_name,
              workspace.repository, {}, workspace.environment,
              workspace.created_at, "Stopped")

(***************************************************************************)
(* The commands applied by a caller that holds one descriptor.             *)
(***************************************************************************)
MaxClock == 2

CmdNames == {<<"d">>, <<"-", "d">>}
CmdTemplates == {"default", "minimal", "python", "bogus"}
CmdStories == {None, Some(<<"s">>)}

\* The template directory holds the three templates, or a ready compose
\* file, or nothing; the source kanban directory exists or not.
CmdWorlds ==
    [present : {TemplateFileSet, {"docker-compose.yml"}, {}},
     kanban : {"copy", "none"}, extras : {FALSE}]

Record(op, name, r, was_running, exit) ==
    [Op(op, name, r.error, r.failed, r.ret, r.cmds, r.removed)
        EXCEPT !.running = was_running, !.exit = exit]

\* What the caller holds after a command: the returned descriptor, or the
\* one it held when the command raised.
Keep(r) == IF r.error = "none" THEN r.ret ELSE held

\* Whether the validation that opens WorkspaceCommands.create passes; a
\* fault of a later step can only show when it does.
Validates(files, name, template) ==
    validate_name(name) /\ validate_template(template) /\ Root(name) \notin files

CmdCreate ==
    \E name \in CmdNames, template \in CmdTemplates,
       story_name \in CmdStories :
     \E fault \in IF Validates(fs, name, template) THEN CreateFaults
                  ELSE {"none"} :
        LET args == [name |-> name, template |-> template,
                     story_name |-> story_name]
            r == create_action(fs, containers, args, clock + 1, fault, world)
        IN  /\ clock < MaxClock
            /\ HasRoom(fs, name) \/ ~Validates(fs, name, template)
            /\ fs' = r.fs
            /\ containers' = r.containers
            /\ held' = Keep(r)
            /\ clock' = IF r.error = "none" THEN clock + 1 ELSE clock
            /\ last' = Record("WorkspaceCommands.create", name, r,
                              name \in containers, "none")
            /\ UNCHANGED <<portCall, nameCall, world, fleet, walk, builds, call>>

CmdStart ==
    \E yaml \in {"valid", "invalid"}, up \in DockerOutcomes,
       partial \in BOOLEAN, down \in DockerOutcomes :
        LET r == start_action(fs, containers, held, yaml, up, partial, down)
        IN  /\ held.state # "none"
            /\ fs' = r.fs
            /\ containers' = r.containers
            /\ held' = Keep(r)
            /\ last' = Record("WorkspaceCommands.start", held.name, r,
                              held.name \in containers,
                              IF r.failed = "update_docker_ports" THEN "none"
                              ELSE run_docker_command(fs, held.name, up))
            /\ UNCHANGED <<portCall, nameCall, world, clock, fleet, walk,
                           builds, call>>

CmdStop ==
    \E down \in DockerOutcomes :
        LET r == stop_action(fs, containers, held, down)
        IN  /\ held.state # "none"
            /\ fs' = r.fs
            /\ containers' = r.containers
            /\ held' = Keep(r)
            /\ last' = Record("WorkspaceCommands.stop", held.name, r,
                              held.name \in containers,
                              run_docker_command(fs, held.name, down))
            /\ UNCHANGED <<portCall, nameCall, world, clock, fleet, walk,
                           builds, call>>

CmdDelete ==
    \E fault \in {"none", "rmtree_root"} :
        LET r == delete_action(fs, containers, held, fault)
        IN  /\ held.state # "none"
            /\ fs' = r.fs
            /\ containers' = r.containers
            /\ last' = Record("WorkspaceCommands.delete", held.name, r,
                              held.name \in containers, "none")
            /\ UNCHANGED <<portCall, nameCall, world, held, clock, fleet,
                           walk, builds, call>>

CmdForceDelete ==
    \E down \in DockerOutcomes, fault \in {"none", "rmtree_root"} :
        LET r == force_delete_action(fs, containers, held, down, fault)
        IN  /\ held.state # "none"
            /\ fs' = r.fs
            /\ containers' = r.containers
            /\ last' = Record("WorkspaceCommands.force_delete", held.name, r,
                              held.name \in containers,
                              run_docker_command(fs, held.name, down))
            /\ UNCHANGED <<portCall, nameCall, world, held, clock, fleet,
                           walk, builds, call>>

CmdStopAndDelete ==
    \E down \in DockerOutcomes, fault \in {"none", "rmtree_root"} :
        LET r == stop_and_delete_workspace(fs, containers, held, down, fault)
        IN  /\ held.state # "none"
            /\ fs' = r.fs
            /\ containers' = r.containers
            /\ last' = Record("stop_and_delete_workspace", held.name, r,
                              held.name \in containers,
                              run_docker_command(fs, held.name, down))
            /\ UNCHANGED <<portCall, nameCall, world, held, clock, fleet,
                           walk, builds, call>>

FunctorCreate ==
    \E template \in CmdTemplates, fault \in {"none", "mkdir_root", "mkdir_sub"} :
        LET r == create_workspace_command(fs, containers, <<"d">>, template,
                                          clock + 1, fault)
        IN  /\ clock < MaxClock
            /\ fs' = r.fs
            /\ containers' = r.containers
            /\ held' = Keep(r)
            /\ clock' = IF r.error = "none" THEN clock + 1 ELSE clock
            /\ last' = Record("create_workspace_command", <<"d">>, r,
                              <<"d">> \in containers, "none")
            /\ UNCHANGED <<portCall, nameCall, world, fleet, walk, builds, call>>

FunctorStart ==
    /\ held.state # "none"
    /\ held' = start_workspace_command(held)
    /\ last' = [Op("start_workspace_command", held.name, "none", "none",
                   held', <<>>, <<>>)
                    EXCEPT !.running = held.name \in containers]
    /\ UNCHANGED <<portCall, nameCall, fs, world, containers, clock, fleet,
                   walk, builds, call>>

FunctorStop ==
    /\ held.state # "none"
    /\ held' = stop_workspace_command(held)
    /\ last' = [Op("stop_workspace_command", held.name, "none", "none",
                   held', <<>>, <<>>)
                    EXCEPT !.running = held.name \in containers]
    /\ UNCHANGED <<portCall, nameCall, fs, world, containers, clock, fleet,
                   walk, builds, call>>

CmdInit ==
    /\ fs = {}
    /\ world \in CmdWorlds
    /\ containers = {}
    /\ held = NoDescriptor
    /\ clock = 0
    /\ last = NoOp
    /\ fleet = {}
    /\ call = <<>>
    /\ walk = <<>>
    /\ builds = <<>>
    /\ portCall = IdlePort
    /\ nameCall = IdleName

CmdNext ==
    \/ CmdCreate
    \/ CmdStart
    \/ CmdStop
    \/ CmdDelete
    \/ CmdForceDelete
    \/ CmdStopAndDelete
    \/ FunctorCreate
    \/ FunctorStart
    \/ FunctorStop

(***************************************************************************)
(* The build entry points on one base directory: create_workspace and      *)
(* create_story_workspace of workspace.py next to WorkspaceCommands.create.*)
(***************************************************************************)
LifeWorlds ==
    [present : {TemplateFileSet}, kanban : {"link", "copy", "none"},
     extras : {TRUE}]

LifeInit ==
    /\ fs = {}
    /\ world \in LifeWorlds
    /\ containers = {}
    /\ held = NoDescriptor
    /\ clock = 0
    /\ last = NoOp
    /\ fleet = {}
    /\ call = <<>>
    /\ walk = <<>>
    /\ builds = <<>>
    /\ portCall = IdlePort
    /\ nameCall = IdleName

LifeNext ==
    \/ CreateWorkspace
    \/ CreateStoryWorkspace
    \/ CmdCreate

(***************************************************************************)
(* The three deletes on one base directory: delete_workspace of            *)
(* workspace.py next to WorkspaceCommands.delete and force_delete, on      *)
(* workspaces made by WorkspaceCommands.create and brought up by the user. *)
(***************************************************************************)
RemoveWorld ==
    [present |-> {"docker-compose.yml"}, kanban |-> "none", extras |-> FALSE]

RemoveInit ==
    /\ fs = {}
    /\ world = RemoveWorld
    /\ containers = {}
    /\ held = NoDescriptor
    /\ clock = 0
    /\ last = NoOp
    /\ fleet = {}
    /\ call = <<>>
    /\ walk = <<>>
    /\ builds = <<>>
    /\ portCall = IdlePort
    /\ nameCall = IdleName

RemoveNext ==
    \/ CmdCreate
    \/ ComposeUp
    \/ DeleteWorkspace
    \/ CmdDelete
    \/ CmdForceDelete

(***************************************************************************)
(* A caller with several workspaces: each is made by                       *)
(* WorkspaceCommands.create and then started and stopped, and the caller   *)
(* keeps the latest descriptor of each in fleet.                           *)
(***************************************************************************)
FleetNames == {<<"d">>, <<"e">>}

\* The caller replaces the descriptor it passed by the one returned.
Replace(workspace, r) ==
    IF r.error = "none" THEN (fleet \ {workspace}) \cup {r.ret} ELSE fleet

FleetCreate ==
    \E name \in FleetNames, template \in ValidTemplates,
       fault \in CreateFaults :
        LET args == [name |-> name, template |-> template,
                     story_name |-> None]
            r == create_action(fs, containers, args, clock + 1, fault, world)
        IN  /\ clock < MaxClock
            /\ fs' = r.fs
            /\ containers' = r.containers
            /\ fleet' = IF r.error = "none" THEN fleet \cup {r.ret} ELSE fleet
            /\ clock' = IF r.error = "none" THEN clock + 1 ELSE clock
            /\ last' = Record("WorkspaceCommands.create", name, r,
                              name \in containers, "none")
            /\ UNCHANGED <<portCall, nameCall, world, held, walk, builds, call>>

FleetStart ==
    \E workspace \in fleet, yaml \in {"valid", "invalid"},
       up \in DockerOutcomes, partial \in BOOLEAN, down \in DockerOutcomes :
        LET r == start_action(fs, containers, workspace, yaml, up, partial,
                              down)
        IN  /\ fs' = r.fs
            /\ containers' = r.containers
            /\ fleet' = Replace(workspace, r)
            /\ last' = Record("WorkspaceCommands.start", workspace.name, r,
                              workspace.name \in containers,
                              IF r.failed = "update_docker_ports" THEN "none"
                              ELSE run_docker_command(fs, workspace.name, up))
            /\ UNCHANGED <<portCall, nameCall, world, held, clock, walk,
                           builds, call>>

FleetStop ==
    \E workspace \in fleet, down \in DockerOutcomes :
        LET r == stop_action(fs, containers, workspace, down)
        IN  /\ fs' = r.fs
            /\ containers' = r.containers
            /\ fleet' = Replace(workspace, r)
            /\ last' = Record("WorkspaceCommands.stop", workspace.name, r,
                              workspace.name \in containers,
                              run_docker_command(fs, workspace.name, down))
            /\ UNCHANGED <<portCall, nameCall, world, held, clock, walk,
                           builds, call>>

FleetInit ==
    /\ fs = {}
    /\ world = RemoveWorld
    /\ containers = {}
    /\ held = NoDescriptor
    /\ clock = 0
    /\ last = NoOp
    /\ fleet = {}
    /\ call = <<>>
    /\ walk = <<>>
    /\ builds = <<>>
    /\ portCall = IdlePort
    /\ nameCall = IdleName

FleetNext == FleetCreate \/ FleetStart \/ FleetStop

(***************************************************************************)
(* types/states.py: the transition tables and their two queries.  A state  *)
(* class is modelled by its name.                                          *)
(***************************************************************************)
REPOSITORY_TRANSITIONS ==
    [from \in {"Uninitialised", "Initialised", "Cloned", "Configured"} |->
        CASE from = "Uninitialised" -> {"Initialised", "Cloned"}
          [] from = "Initialised" -> {"Configured"}
          [] from = "Cloned" -> {"Initialised", "Configured"}
          [] from = "Configured" -> {}]

\* A table in which a destroyed workspace can be created again.
WORKSPACE_TRANSITIONS_reopening ==
    [from \in {"Created", "Running", "Stopped", "Destroyed"} |->
        CASE from = "Created" -> {"Running", "Destroyed"}
          [] from = "Running" -> {"Stopped", "Destroyed"}
          [] from = "Stopped" -> {"Running", "Destroyed"}
          [] from = "Destroyed" -> {"Created"}]

WORKSPACE_TRANSITIONS ==
    [from \in {"Created", "Running", "Stopped", "Destroyed"} |->
        CASE from = "Created" -> {"Running", "Destroyed"}
          [] from = "Running" -> {"Stopped", "Destroyed"}
          [] from = "Stopped" -> {"Running", "Destroyed"}
          [] from = "Destroyed" -> {}]

STORY_TRANSITIONS ==
    [from \in {"Draft", "Ready", "InProgress", "Testing", "Complete"} |->
        CASE from = "Draft" -> {"Ready"}
          [] from = "Ready" -> {"InProgress"}
          [] from = "InProgress" -> {"Testing", "Ready"}
          [] from = "Testing" -> {"Complete", "InProgress"}
          [] from = "Complete" -> {}]

PROJECT_TRANSITIONS ==
    [from \in {"Empty", "Populated", "Active"} |->
        CASE from = "Empty" -> {"Populated"}
          [] from = "Populated" -> {"Active"}
          [] from = "Active" -> {"Populated"}]

\* The list both queries go through, in its order.
TransitionTables ==
    <<REPOSITORY_TRANSITIONS, WORKSPACE_TRANSITIONS, STORY_TRANSITIONS,
      PROJECT_TRANSITIONS>>

\* The state classes of states.py; the last two are in no table.
StateClasses ==
    UNION {DOMAIN TransitionTables[i] : i \in 1..4}
        \cup {"ReadyForWorkspace", "DeploymentReady"}

\* The loop of both queries: the first table with from_state as a key.
RECURSIVE LookUp(_, _)
LookUp(i, from_state) ==
    IF i > Len(TransitionTables) THEN None
    ELSE IF from_state \in DOMAIN TransitionTables[i]
    THEN Some(TransitionTables[i][from_state])
    ELSE LookUp(i + 1, from_state)

is_valid_transition(from_state, to_state) ==
    LET found == LookUp(1, from_state)
    IN  found.has /\ to_state \in found.v

get_valid_transitions(from_state) ==
    LET found == LookUp(1, from_state)
    IN  IF found.has THEN found.v ELSE {}

\* An entity starts in any state and is taken along transitions that
\* get_valid_transitions offers.
MaxWalk == 6

WalkInit ==
    /\ walk \in {<<state>> : state \in StateClasses}
    /\ fs = {}
    /\ world = IdleWorld
    /\ containers = {}
    /\ held = NoDescriptor
    /\ clock = 0
    /\ last = NoOp
    /\ fleet = {}
    /\ call = <<>>
    /\ builds = <<>>
    /\ portCall = IdlePort
    /\ nameCall = IdleName

Transition ==
    /\ Len(walk) < MaxWalk
    /\ \E to_state \in get_valid_transitions(walk[Len(walk)]) :
          walk' = Append(walk, to_state)
    /\ UNCHANGED <<portCall, nameCall, fs, world, containers, held, clock,
                   last, fleet, builds, call>>

(***************************************************************************)
(* Two concurrent builds of one workspace name.  A build is                *)
(* create_workspace of workspace.py or WorkspaceCommands.create; its       *)
(* steps are the existence check, the two mkdir calls, and the writes that *)
(* fill the directory.  Template and ports are there for both builds.      *)
(***************************************************************************)
RaceName == <<"d">>
BuildKinds == {"create_workspace", "WorkspaceCommands.create"}

\* A mkdir that raises whenever the path is there.
mkdir_exclusive(files, path, exist_ok) ==
    [fs |-> files \cup {path}, raised |-> path \in files]

\* Path.mkdir(exist_ok=...) of a directory whose parent exists.
mkdir(files, path, exist_ok) ==
    [fs |-> files \cup {path}, raised |-> path \in files /\ ~exist_ok]

At(i, pc) == [builds EXCEPT ![i].pc = pc]
Raise(i, error) == [builds EXCEPT ![i].pc = "done", ![i].error = error]

\* workspace.py 142-145; commands/workspace.py 68-73.
ExistsCheck ==
    \E i \in DOMAIN builds :
        /\ builds[i].pc = "check"
        /\ builds' = IF Root(RaceName) \notin fs THEN At(i, "mkdir_root")
                      ELSE IF builds[i].kind = "create_workspace"
                      THEN Raise(i, "AlreadyExists")
                      ELSE Raise(i, "ValidationError")
        /\ UNCHANGED <<portCall, nameCall, fs, world, containers, held, clock,
                       last, fleet, walk, call>>

\* workspace_dir.mkdir(parents=True, exist_ok=True)
MkdirRoot ==
    \E i \in DOMAIN builds :
        LET made == mkdir(fs, Root(RaceName), TRUE)
        IN  /\ builds[i].pc = "mkdir_root"
            /\ fs' = IF made.raised THEN fs ELSE made.fs
            /\ builds' = IF made.raised THEN Raise(i, "FileExistsError")
                          ELSE At(i, "mkdir_sub")
            /\ UNCHANGED <<portCall, nameCall, world, containers, held,
                           clock, last, fleet, walk, call>>

\* workspace_subdir.mkdir(exist_ok=True)
MkdirSub ==
    \E i \in DOMAIN builds :
        LET made == mkdir(fs, WorkspaceSubdir(RaceName), TRUE)
        IN  /\ builds[i].pc = "mkdir_sub"
            /\ fs' = IF made.raised THEN fs ELSE made.fs
            /\ builds' = IF made.raised THEN Raise(i, "FileExistsError")
                          ELSE At(i, "fill")
            /\ UNCHANGED <<portCall, nameCall, world, containers, held,
                           clock, last, fleet, walk, call>>

\* The rest of the build.  In create_workspace the rendered files are
\* overwritten, symlink_to and the copytree of the kanban directory raise
\* FileExistsError when the destination is there, and the scripts are
\* copied with dirs_exist_ok; every write of WorkspaceCommands.create
\* overwrites.
Fill ==
    \E i \in DOMAIN builds :
        LET rendered == RenderTemplates(1, fs, RaceName, world, "none").fs
            linked == LinkKanban(rendered, RaceName, world, "none").fs
            copied == CopyBuildContext(linked, RaceName, world, "none").fs
            kanban == copy_kanban_structure(fs, RaceName, world, "none").fs
            docker == create_docker_config(kanban, RaceName, "default", world,
                                           "none").fs
            env == create_environment_file(docker, RaceName, "none").fs
        IN  /\ builds[i].pc = "fill"
            /\ IF builds[i].kind = "WorkspaceCommands.create"
               THEN fs' = env /\ builds' = At(i, "done")
               ELSE IF world.kanban # "none" /\ KanbanDest(RaceName) \in fs
               THEN fs' = rendered /\ builds' = Raise(i, "FileExistsError")
               ELSE fs' = copied /\ builds' = At(i, "done")
            /\ UNCHANGED <<portCall, nameCall, world, containers, held,
                           clock, last, fleet, walk, call>>

RaceInit ==
    /\ builds \in [{1, 2} -> [kind : BuildKinds, pc : {"check"},
                               error : {"none"}]]
    /\ fs = {}
    /\ world \in LifeWorlds
    /\ containers = {}
    /\ held = NoDescriptor
    /\ clock = 0
    /\ last = NoOp
    /\ fleet = {}
    /\ call = <<>>
    /\ walk = <<>>
    /\ portCall = IdlePort
    /\ nameCall = IdleName

RaceNext == ExistsCheck \/ MkdirRoot \/ MkdirSub \/ Fill

(***************************************************************************)
(* Start and stop on a descriptor the caller constructed itself: the       *)
(* Workspace dataclass takes any value for each field.  The workspace      *)
(* directory of the descriptor is there or not.                            *)
(***************************************************************************)
Descriptors ==
    {Workspace(<<"d">>, template, story_name, repository, ports, environment,
               created_at, state) :
        template \in {"default", "python"},
        story_name \in CmdStories,
        repository \in {None, Some(<<"r">>)},
        ports \in {{}, allocate_ports("default")},
        environment \in {{}, {<<"K", "v">>}},
        created_at \in 1..MaxClock,
        state \in {"Created", "Running", "Stopped"}}

DescriptorInit ==
    /\ held \in Descriptors
    /\ fs \in {{}, create_action({}, {}, [name |-> <<"d">>,
                       template |-> "default", story_name |-> None], 1,
                       "none", RemoveWorld).fs}
    /\ world = RemoveWorld
    /\ containers = {}
    /\ clock = MaxClock
    /\ last = NoOp
    /\ fleet = {}
    /\ call = <<>>
    /\ walk = <<>>
    /\ builds = <<>>
    /\ portCall = IdlePort
    /\ nameCall = IdleName

DescriptorNext == CmdStart \/ CmdStop \/ FunctorStart \/ FunctorStop

(***************************************************************************)
(* command_algebra.py: FilterCommand, compose and identity.  An action is  *)
(* a lambda, named by its body, or the closure composed_action that holds  *)
(* the two commands it was made from.  A result is a returned value or an  *)
(* exception that leaves the command.                                      *)
(***************************************************************************)
Returned(v) == [raised |-> FALSE, v |-> v]
Raised == [raised |-> TRUE, v |-> 0]

FilterCommand(name, body, effects) ==
    [name |-> name, action |-> [kind |-> "lambda", body |-> body],
     effects |-> effects]

\* The bodies of the lambdas the commands are made from.
Lambda(body, x) ==
    CASE body = "x" -> Returned(x)
      [] body = "x + 1" -> Returned(x + 1)
      [] body = "x * 2" -> Returned(x * 2)
      [] body = "x - 3" -> Returned(x - 3)
      [] body = "0" -> Returned(0)
      [] body = "raise" -> Raised

\* FilterCommand.__call__: the action's result; its exception is re-raised.
RECURSIVE Call(_, _)
Call(command, input) ==
    IF command.action.kind = "lambda"
    THEN Lambda(command.action.body, input)
    ELSE LET intermediate == Call(command.action.self, input)
         IN  IF intermediate.raised THEN intermediate
             ELSE Call(command.action.other, intermediate.v)

\* self.compose(other): the closure and the combined effects.
Compose(self, other) ==
    [name |-> self.name \o <<" >> ">> \o other.name,
     action |-> [kind |-> "composed_action", self |-> self, other |-> other],
     effects |-> self.effects \o other.effects]

\* An identity command whose action forgets its input.
identity_forgetful == FilterCommand(<<"identity">>, "0", <<>>)

identity == FilterCommand(<<"identity">>, "x", <<>>)

\* The commands of the tests, one that raises, and the identity.
TestCommands ==
    {FilterCommand(<<"f">>, "x + 1", <<"audit">>),
     FilterCommand(<<"g">>, "x * 2", <<>>),
     FilterCommand(<<"h">>, "x - 3", <<"docker">>),
     FilterCommand(<<"e">>, "raise", <<"filesystem">>),
     identity}

TestInputs == {10, 5, 0}

AlgebraInit ==
    /\ call \in [f : TestCommands, g : TestCommands, h : TestCommands,
                  x : TestInputs, done : {FALSE}]
    /\ fs = {}
    /\ world = IdleWorld
    /\ containers = {}
    /\ held = NoDescriptor
    /\ clock = 0
    /\ last = NoOp
    /\ fleet = {}
    /\ walk = <<>>
    /\ builds = <<>>
    /\ portCall = IdlePort
    /\ nameCall = IdleName

\* The composites of the two law tests, called on x.
CallComposites ==
    LET f == call.f
        g == call.g
        h == call.h
        left_assoc == Compose(Compose(f, g), h)
        right_assoc == Compose(f, Compose(g, h))
    IN  /\ ~call.done
        /\ call' = [f |-> f, g |-> g, h |-> h, x |-> call.x, done |-> TRUE,
                    direct |-> Call(f, call.x),
                    left_identity |-> Call(Compose(identity, f), call.x),
                    right_identity |-> Call(Compose(f, identity), call.x),
                    left |-> Call(left_assoc, call.x),
                    right |-> Call(right_assoc, call.x),
                    left_effects |-> left_assoc.effects,
                    right_effects |-> right_assoc.effects]
        /\ UNCHANGED <<portCall, nameCall, fs, world, containers, held, clock,
                       last, fleet, walk, builds>>

(***************************************************************************)
(* functors/: the four functors and the transformations the library       *)
(* offers for their entities.  A dict is the set of its items; a           *)
(* transformation is named by the function that makes it, and the lambda   *)
(* x: g(f(x)) of the law tests holds its f and g.                          *)
(***************************************************************************)
\* {**d, **kwargs}
Merge(d, kwargs) ==
    {item \in d : \A new \in kwargs : new[1] # item[1]} \cup kwargs

\* The entities the functors wrap, by functor.
Entities(functor) ==
    CASE functor = "WorkspaceFunctor" ->
            {Workspace(<<"t">>, "default", None, None, {}, environment, 1,
                       "Created") :
                environment \in {{}, {<<"TEST", "false">>,
                                      <<"DEBUG", "false">>}}}
      [] functor = "StoryFunctor" ->
            {[name |-> <<"t", "-", "1">>, title |-> "Test Story",
              description |-> "A test story", file_path |-> "/tmp/test-1.md",
              project_name |-> None, assignee |-> assignee,
              priority |-> "Medium", effort |-> None, tags |-> <<>>,
              created_at |-> 1] : assignee \in {None, Some(<<"b">>)}}
      [] functor = "RepositoryFunctor" ->
            {[path |-> "/tmp/test-repo", url |-> Some(<<"u">>),
              branch |-> "main", metadata |-> metadata] :
                metadata \in {{}, {<<"team", "frontend">>}}}
      [] functor = "ProjectFunctor" ->
            {[name |-> <<"t">>, path |-> "/tmp/test-project",
              prefix |-> "testp", description |-> "", git_url |-> None,
              maintainers |-> maintainers, created_at |-> 1] :
                maintainers \in {<<>>, <<"bob@example.com">>}}

\* The transformations of the law tests, by functor, and lambda x: x.
Transformations(functor) ==
    {"identity"} \cup
    CASE functor = "WorkspaceFunctor" ->
            {"add_story_context", "add_environment_vars"}
      [] functor = "StoryFunctor" ->
            {"set_assignee", "add_tags", "add_tags('review')"}
      [] functor = "RepositoryFunctor" -> {"set_branch", "add_metadata"}
      [] functor = "ProjectFunctor" ->
            {"add_maintainer", "update_description"}

\* What each transformation returns: a new entity built field by field.
Transform(f, e) ==
    CASE f = "identity" -> e
      [] f = "add_story_context" ->
            Workspace(e.name, e.template, Some(<<"test-story">>),
                      e.repository, e.ports, e.environment, e.created_at,
                      e.state)
      [] f = "add_environment_vars" ->
            Workspace(e.name, e.template, e.story_name, e.repository, e.ports,
                      Merge(e.environment, {<<"DEBUG", "true">>,
                                            <<"MODE", "test">>}),
                      e.created_at, e.state)
      [] f = "set_assignee" ->
            [name |-> e.name, title |-> e.title,
             description |-> e.description, file_path |-> e.file_path,
             project_name |-> e.project_name, assignee |-> Some(<<"alice">>),
             priority |-> e.priority, effort |-> e.effort, tags |-> e.tags,
             created_at |-> e.created_at]
      [] f = "add_tags" ->
            [name |-> e.name, title |-> e.title,
             description |-> e.description, file_path |-> e.file_path,
             project_name |-> e.project_name, assignee |-> e.assignee,
             priority |-> e.priority, effort |-> e.effort,
             tags |-> e.tags \o <<"urgent", "backend">>,
             created_at |-> e.created_at]
      [] f = "add_tags('review')" ->
            [name |-> e.name, title |-> e.title,
             description |-> e.description, file_path |-> e.file_path,
             project_name |-> e.project_name, assignee |-> e.assignee,
             priority |-> e.priority, effort |-> e.effort,
             tags |-> e.tags \o <<"review">>, created_at |-> e.created_at]
      [] f = "set_branch" ->
            [path |-> e.path, url |-> e.url, branch |-> "develop",
             metadata |-> e.metadata]
      [] f = "add_metadata" ->
            [path |-> e.path, url |-> e.url, branch |-> e.branch,
             metadata |-> Merge(e.metadata, {<<"team", "backend">>,
                                             <<"priority", "high">>})]
      [] f = "add_maintainer" ->
            [name |-> e.name, path |-> e.path, prefix |-> e.prefix,
             description |-> e.description, git_url |-> e.git_url,
             maintainers |-> e.maintainers \o <<"alice@example.com">>,
             created_at |-> e.created_at]
      [] f = "update_description" ->
            [name |-> e.name, path |-> e.path, prefix |-> e.prefix,
             description |-> "Updated description", git_url |-> e.git_url,
             maintainers |-> e.maintainers, created_at |-> e.created_at]

\* f(entity) for a named transformation or for lambda x: g(f(x)).
Apply(f, e) ==
    IF f.kind = "composed" THEN Transform(f.g, Transform(f.f, e))
    ELSE Transform(f.name, e)

Named(name) == [kind |-> "named", name |-> name]

\* An fmap that applies the transformation to its own result again.
fmap_twice(functor, f) ==
    [functor |-> functor.functor,
     entity |-> Apply(f, Apply(f, functor.entity))]

\* fmap of each functor: transformed = f(self.<entity>), wrapped anew.
fmap(functor, f) ==
    [functor |-> functor.functor, entity |-> Apply(f, functor.entity)]

FunctorInit ==
    /\ \E functor \in {"WorkspaceFunctor", "StoryFunctor",
                        "RepositoryFunctor", "ProjectFunctor"} :
          call \in [functor : {functor}, entity : Entities(functor),
                    f : Transformations(functor),
                    g : Transformations(functor), done : {FALSE}]
    /\ fs = {}
    /\ world = IdleWorld
    /\ containers = {}
    /\ held = NoDescriptor
    /\ clock = 0
    /\ last = NoOp
    /\ fleet = {}
    /\ walk = <<>>
    /\ builds = <<>>
    /\ portCall = IdlePort
    /\ nameCall = IdleName

\* The three maps of the law tests on one functor.
MapEntity ==
    LET wrapped == [functor |-> call.functor, entity |-> call.entity]
        composed == [kind |-> "composed", f |-> call.f, g |-> call.g]
    IN  /\ ~call.done
        /\ call' = [call EXCEPT !.done = TRUE] @@
              [identity_mapped |-> fmap(wrapped, Named("identity")),
               direct_result |-> fmap(wrapped, composed),
               functor_result |-> fmap(fmap(wrapped, Named(call.f)),
                                       Named(call.g))]
        /\ UNCHANGED <<portCall, nameCall, fs, world, containers, held, clock,
                       last, fleet, walk, builds>>

(***************************************************************************)
(* Phantom values of types/phantom.py.  The object stores the value only;  *)
(* the state is the parameter of its static type, Phantom[State], carried  *)
(* here beside the value so that a transition out of another state can be  *)
(* told apart.  Nothing at run time reads it.                              *)
(***************************************************************************)

Phantom(value, state) == [value |-> value, state |-> state]

phantom_cast(value, state) == Phantom(value, state)

transition_to(phantom, new_state) == Phantom(phantom.value, new_state)

StateTransition(from_state, to_state) ==
    [from_state |-> from_state, to_state |-> to_state]

apply(transition, phantom) == transition_to(phantom, transition.to_state)

\* The workspace transitions that entities.py declares.
START_WORKSPACE == StateTransition("Created", "Running")
STOP_WORKSPACE == StateTransition("Running", "Stopped")
RESTART_WORKSPACE == StateTransition("Stopped", "Running")
DESTROY_WORKSPACE == StateTransition("Created", "Destroyed")
DESTROY_RUNNING == StateTransition("Running", "Destroyed")
DESTROY_STOPPED == StateTransition("Stopped", "Destroyed")

WorkspaceStates == {"Created", "Running", "Stopped", "Destroyed"}

\* The declared transitions, and any other pair a caller constructs.
StateTransitions ==
    {START_WORKSPACE, STOP_WORKSPACE, RESTART_WORKSPACE, DESTROY_WORKSPACE,
     DESTROY_RUNNING, DESTROY_STOPPED}
        \cup {StateTransition(a, b) : a, b \in WorkspaceStates}

PhantomValues == {<<"d">>, AutoName(<<"s">>, 1)}

PhantomInit ==
    /\ call \in [transition : StateTransitions,
                  phantom : {phantom_cast(value, state) :
                                value \in PhantomValues,
                                state \in WorkspaceStates},
                  direct : BOOLEAN,
                  result : {<<>>}]
    /\ fs = {}
    /\ world = IdleWorld
    /\ containers = {}
    /\ held = NoDescriptor
    /\ clock = 0
    /\ last = NoOp
    /\ fleet = {}
    /\ walk = <<>>
    /\ builds = <<>>
    /\ portCall = IdlePort
    /\ nameCall = IdleName

\* transition.apply(phantom), or phantom.transition_to(to_state) directly.
ApplyTransition ==
    /\ call.result = <<>>
    /\ call' = [call EXCEPT !.result =
                   <<Returned(IF call.direct
                              THEN transition_to(call.phantom,
                                                 call.transition.to_state)
                              ELSE apply(call.transition, call.phantom))>>]
    /\ UNCHANGED <<portCall, nameCall, fs, world, containers, held, clock,
                   last, fleet, walk, builds>>

(***************************************************************************)
(* The compose file as update_docker_ports reads and writes it: the        *)
(* mapping yaml.safe_load returns and yaml.safe_dump writes back, with the *)
(* services, each with an optional list of port mappings, and the other    *)
(* top-level keys.  A port mapping is the string "host:container".         *)
(***************************************************************************)

DefaultContainerPort == 8000

\* f"{host}:{container}"
PortMapping(host, container) == Digits(host) \o <<":">> \o Digits(container)

\* s.split(':'): the fields between the colons, left to right.
RECURSIVE Split(_, _)
Split(s, field) ==
    IF s = <<>> THEN <<field>>
    ELSE IF Head(s) = ":" THEN <<field>> \o Split(Tail(s), <<>>)
    ELSE Split(Tail(s), Append(field, Head(s)))

\* The body of the loop for one service that has a ports section.
update_service_ports(service, port) ==
    LET original_ports == IF service.ports.v # <<>>
                          THEN service.ports.v[1]
                          ELSE PortMapping(DefaultContainerPort,
                                           DefaultContainerPort)
        container_port ==
            IF \E i \in 1..Len(original_ports) : original_ports[i] = ":"
            THEN Split(original_ports, <<>>)[2]
            ELSE Digits(DefaultContainerPort)
    IN  [service EXCEPT !.ports =
            Some(<<Digits(port) \o <<":">> \o container_port>>)]

\* The loop over ports.items() on the loaded config.
update_port_mappings(config, ports) ==
    IF ~config.has_services THEN config
    ELSE [config EXCEPT !.services =
            [service_name \in DOMAIN config.services |->
                LET service == config.services[service_name]
                    named == {kv \in ports : kv[1] = service_name}
                IN  IF named # {} /\ service.ports.has
                    THEN update_service_ports(service,
                                              (CHOOSE kv \in named : TRUE)[2])
                    ELSE service]]

\* The whole call on a compose file that may be missing.
rewrite_compose_file(file, ports) ==
    IF ~file.exists THEN file
    ELSE [file EXCEPT !.config = update_port_mappings(file.config, ports)]

ServiceNames == {"claude", "postgres", "web"}

PortLists ==
    {<<>>, <<PortMapping(8000, 8000)>>, <<Digits(5432)>>,
     <<PortMapping(3000, 3000), PortMapping(9229, 9229)>>}

Services ==
    [image : {"app"}, ports : {None} \cup {Some(list) : list \in PortLists}]

ComposeConfigs ==
    [other : {{<<"version", "3.8">>}},
     has_services : {TRUE},
     services : UNION {[names -> Services] :
                          names \in {ServiceNames, {"claude", "web"}}}]
        \cup {[other |-> {<<"version", "3.8">>, <<"volumes", "data">>},
               has_services |-> FALSE,
               services |-> [name \in {} |-> 0]]}

ComposeFiles ==
    [exists : {TRUE}, config : ComposeConfigs]
        \cup {[exists |-> FALSE,
               config |-> [other |-> {}, has_services |-> FALSE,
                           services |-> [name \in {} |-> 0]]]}

ComposeInit ==
    /\ call \in [file : ComposeFiles,
                  ports : {allocate_ports(template) :
                              template \in {"default", "python", "minimal"}},
                  result : {<<>>}]
    /\ fs = {}
    /\ world = IdleWorld
    /\ containers = {}
    /\ held = NoDescriptor
    /\ clock = 0
    /\ last = NoOp
    /\ fleet = {}
    /\ walk = <<>>
    /\ builds = <<>>
    /\ portCall = IdlePort
    /\ nameCall = IdleName

UpdateDockerPorts ==
    /\ call.result = <<>>
    /\ call' = [call EXCEPT !.result =
                   <<rewrite_compose_file(call.file, call.ports)>>]
    /\ UNCHANGED <<portCall, nameCall, fs, world, containers, held, clock,
                   last, fleet, walk, builds>>

(***************************************************************************)
(* Two concurrent WorkspaceCommands.create of one name, with the resource  *)
(* manager: a build keeps created_paths, the list cleanup_all removes when *)
(* an exception leaves the with block.  `made` records, for the            *)
(* properties, the paths that were not there before the build wrote them.  *)
(***************************************************************************)
FillFaults == {"none", "kanban_copy", "docker_config", "env_file"}

RollbackInit ==
    /\ builds \in [{1, 2} -> [kind : {"WorkspaceCommands.create"},
                               pc : {"check"}, error : {"none"},
                               fault : FillFaults, created_paths : {<<>>},
                               made : {{}}]]
    /\ fs = {}
    /\ world \in LifeWorlds
    /\ containers = {}
    /\ held = NoDescriptor
    /\ clock = 0
    /\ last = NoOp
    /\ fleet = {}
    /\ call = <<>>
    /\ walk = <<>>
    /\ portCall = IdlePort
    /\ nameCall = IdleName

\* create_directory_structure and track_paths of what it returns.
CreateDirectories ==
    \E i \in DOMAIN builds :
        LET made == create_directory_structure(fs, RaceName, "none")
        IN  /\ builds[i].pc = "mkdir_root"
            /\ fs' = made.fs
            /\ builds' = [builds EXCEPT ![i].pc = "fill",
                                        ![i].created_paths = made.paths,
                                        ![i].made = made.fs \ fs]
            /\ UNCHANGED <<portCall, nameCall, world, containers, held,
                           clock, last, fleet, walk, call>>

\* The rest of the with block: the kanban copy and its track_paths, the
\* docker configuration, the environment file, created_paths.clear().
FillTracked ==
    \E i \in DOMAIN builds :
        LET fault == builds[i].fault
            kanban == copy_kanban_structure(fs, RaceName, world, fault)
            tracked == builds[i].created_paths \o kanban.paths
            docker == create_docker_config(kanban.fs, RaceName, "default",
                                           world, fault)
            env == create_environment_file(docker.fs, RaceName, fault)
            Failed(reached, created_paths) ==
                /\ fs' = reached
                /\ builds' = [builds EXCEPT
                                 ![i].pc = "rollback",
                                 ![i].error = "OSError",
                                 ![i].created_paths = created_paths,
                                 ![i].made = @ \cup (reached \ fs)]
        IN  /\ builds[i].pc = "fill"
            /\ IF kanban.raised
               THEN Failed(kanban.fs, builds[i].created_paths)
               ELSE IF docker.raised THEN Failed(docker.fs, tracked)
               ELSE IF env.raised THEN Failed(env.fs, tracked)
               ELSE /\ fs' = env.fs
                    /\ builds' = [builds EXCEPT
                                     ![i].pc = "done",
                                     ![i].created_paths = <<>>,
                                     ![i].made = @ \cup (env.fs \ fs)]
            /\ UNCHANGED <<portCall, nameCall, world, containers, held,
                           clock, last, fleet, walk, call>>

\* __exit__ with an exception: cleanup_all.
CleanupAll ==
    \E i \in DOMAIN builds :
        LET cleaned == cleanup_paths(fs, builds[i].created_paths)
        IN  /\ builds[i].pc = "rollback"
            /\ fs' = cleaned.fs
            /\ builds' = [builds EXCEPT ![i].pc = "done",
                                        ![i].created_paths = <<>>]
            /\ UNCHANGED <<portCall, nameCall, world, containers, held,
                           clock, last, fleet, walk, call>>

RollbackNext == ExistsCheck \/ CreateDirectories \/ FillTracked \/ CleanupAll

PortSpecInit == PortInit /\ nameCall = IdleName /\ IdleDisk
NameSpecInit == NameInit /\ portCall = IdlePort /\ IdleDisk

SpecPort == PortSpecInit /\ [][FindPort]_vars
SpecName == NameSpecInit /\ [][GenerateName]_vars
SpecBuild == BuildInit /\ [][BuildNext]_vars
SpecDelete == DeleteInit /\ [][DeleteNext]_vars
SpecCmd == CmdInit /\ [][CmdNext]_vars
SpecLife == LifeInit /\ [][LifeNext]_vars
SpecRemove == RemoveInit /\ [][RemoveNext]_vars
SpecFleet == FleetInit /\ [][FleetNext]_vars
SpecWalk == WalkInit /\ [][Transition]_vars
SpecRace == RaceInit /\ [][RaceNext]_vars
SpecDescriptor == DescriptorInit /\ [][DescriptorNext]_vars
SpecAlgebra == AlgebraInit /\ [][CallComposites]_vars
SpecFunctor == FunctorInit /\ [][MapEntity]_vars
SpecPhantom == PhantomInit /\ [][ApplyTransition]_vars
SpecCompose == ComposeInit /\ [][UpdateDockerPorts]_vars
SpecRollback == RollbackInit /\ [][RollbackNext]_vars

(***************************************************************************)
(* Properties of the operations, by claim.                                 *)
(***************************************************************************)

\* C1: when rendering a template file fails after the workspace
\* directories were created, create_workspace raises, returns no path, and
\* the workspace root directory does not exist when the call returns.
C1_BuildAtomicity ==
    (last.op = "create_workspace" /\ last.failed \in TemplateFileSet)
        => /\ last.error # "none"
           /\ last.ret = None
           /\ Root(last.name) \notin fs

\* C2: when a step of WorkspaceCommands.create after validation raises
\* (directory structure, kanban copy, Docker config, environment file),
\* the exception reaches the caller, no descriptor is returned and nothing
\* of the workspace, its root directory included, is left on disk; a
\* successful create removes nothing.
C2_CreateRollback ==
    last.op = "WorkspaceCommands.create"
        => /\ last.failed \in CreateFaults \ {"none", "which_docker"}
                  => /\ last.error # "none"
                     /\ last.ret = NoDescriptor
                     /\ Tree(fs, last.name) = {}
           /\ last.error = "none" => last.removed = <<>>

\* C3: when the project has a git URL and the clone fails, or the clone
\* succeeds and the branch checkout fails, create_story_workspace raises
\* nothing and returns the workspace path, and every path the build
\* created (the directories, the rendered files, the kanban link and the
\* copied build context) is still on disk.
C3_TolerantCloneFailure ==
    (last.op = "create_story_workspace" /\ last.failed \in {"clone", "checkout"})
        => /\ last.error = "none"
           /\ last.ret = Some(last.name)
           /\ create_workspace({}, last.name, "default", {}, "none", world).fs
                  \subseteq fs
           /\ last.failed = "checkout" => RepoPath(last.name) \in fs

C3_Witness ==
    /\ last.op = "create_story_workspace"
    /\ last.failed = "clone"
    /\ last.cmds = <<"git clone">>
    /\ last.ret = Some(last.name)
    /\ {Root(last.name), ComposeFile(last.name)} \subseteq fs

\* C4: delete_workspace with force=False on a workspace whose
\* `docker compose ps -q` printed container ids raises Busy, runs no
\* command after the status query, removes nothing, and leaves the
\* filesystem and the containers as they were.
C4_DeleteRunningRequiresForce ==
    [][(last'.op = "delete_workspace" /\ last'.running /\ ~last'.force)
          => /\ last'.error = "Busy"
             /\ last'.cmds = <<"docker compose ps -q">>
             /\ last'.removed = <<>>
             /\ fs' = fs
             /\ containers' = containers]_vars

C4_Witness ==
    /\ last.op = "delete_workspace"
    /\ last.running
    /\ ~last.force
    /\ last.error = "Busy"
    /\ last.name \in containers
    /\ {Root(last.name), ComposeFile(last.name), RepoPath(last.name)}
           \subseteq fs

\* C5: with no custom suffix and a base directory, the generated name is
\* never the name of an existing entry of the base directory.
C5_NameUniqueness ==
    LET r == nameCall.result
    IN  (r # NoName /\ ~nameCall.custom.has /\ nameCall.base.has)
            => (r.kind = "name" /\ r.name \notin nameCall.base.v)

\* The counter had to pass two existing workspaces of the story.
C5_Witness ==
    /\ nameCall.result # NoName
    /\ ~nameCall.custom.has
    /\ nameCall.base.has
    /\ AutoName(nameCall.story, 1) \in nameCall.base.v
    /\ AutoName(nameCall.story, 2) \in nameCall.base.v
    /\ nameCall.result.name = AutoName(nameCall.story, 3)

\* C6: WorkspaceCommands.stop whose `docker compose down` ran, with exit
\* status zero or not, raises nothing and returns a Stopped descriptor
\* with an empty port map.
C6_StopNeverFails ==
    (last.op = "WorkspaceCommands.stop" /\ last.exit \in {"ok", "nonzero"})
        => /\ last.error = "none"
           /\ last.ret.state = "Stopped"
           /\ last.ret.ports = {}

\* C7: through every sequence of create, start and stop commands the
\* descriptor's port map is empty exactly when its state is not Running:
\* empty after a create, non-empty after a successful start, empty after a
\* successful stop.
C7_PortsIffRunning ==
    /\ held.state # "none" => (held.ports = {} <=> held.state # "Running")
    /\ (last.op \in {"WorkspaceCommands.create", "create_workspace_command"}
            /\ last.error = "none")
           => last.ret.state = "Created" /\ last.ret.ports = {}
    /\ (last.op \in {"WorkspaceCommands.start", "start_workspace_command"}
            /\ last.error = "none")
           => last.ret.state = "Running" /\ last.ret.ports # {}
    /\ (last.op \in {"WorkspaceCommands.stop", "stop_workspace_command"}
            /\ last.error = "none")
           => last.ret.state = "Stopped" /\ last.ret.ports = {}

C7_Witness ==
    /\ last.op = "WorkspaceCommands.stop"
    /\ last.error = "none"
    /\ last.running
    /\ held.state = "Stopped"
    /\ held.ports = {}
    /\ held.template = "python"

\* C8: when `docker compose up -d` of WorkspaceCommands.start fails, the
\* commands run are the up and then one `docker compose down`, the error
\* raised is the one of the up whatever the down did, no descriptor is
\* returned, the caller's descriptor is the one it had, and the
\* filesystem is as it was.
C8_StartFailurePolicy ==
    [][(last'.op = "WorkspaceCommands.start"
           /\ last'.exit \in {"nonzero", "no_docker", "missing_cwd"})
          => /\ last'.cmds = <<"docker compose up -d", "docker compose down">>
             /\ last'.error = ErrorOf(last'.exit)
             /\ last'.ret = NoDescriptor
             /\ held' = held
             /\ fs' = fs]_vars

C8_Witness ==
    /\ last.op = "WorkspaceCommands.start"
    /\ last.exit = "nonzero"
    /\ last.error = "CalledProcessError"
    /\ last.cmds = <<"docker compose up -d", "docker compose down">>
    /\ ~last.running
    /\ last.name \in containers
    /\ held.state = "Created"
    /\ ComposeFile(last.name) \in fs

\* C9: WorkspaceCommands.delete applied to a workspace with live
\* containers raises Busy and removes nothing, and the composed
\* stop-and-delete removes the directory only once the containers are
\* down.
C9_DeleteRunningNeedsForce ==
    /\ (last.op = "WorkspaceCommands.delete" /\ last.running)
           => /\ last.error = "Busy"
              /\ last.removed = <<>>
    /\ (last.op = "stop_and_delete_workspace" /\ last.removed # <<>>)
           => last.name \notin containers

\* C10: find_available_port probes start, start+1, ... in ascending order,
\* at most max_attempts candidates, and a returned port is the smallest
\* bindable port of [start, start + max_attempts), never one outside it.
C10_SmallestBindablePort ==
    LET r == portCall.result
        first == portCall.start
        range == first..(first + portCall.max - 1)
        bindable(p) == p \in ValidPorts /\ p \notin portCall.occupied
    IN  r # NoResult =>
            /\ Len(r.probed) <= portCall.max
            /\ \A i \in 1..Len(r.probed) : r.probed[i] = first + i - 1
            /\ r.kind = "port" =>
                   /\ r.port \in range
                   /\ bindable(r.port)
                   /\ \A q \in first..(r.port - 1) : ~bindable(q)
            /\ (\E q \in range : bindable(q)) => r.kind = "port"

\* A port was returned after an occupied candidate was skipped, with a
\* larger bindable port left in the range.
C10_Witness ==
    /\ portCall.result.kind = "port"
    /\ portCall.result.port > portCall.start
    /\ \E q \in ValidPorts \ portCall.occupied :
          q > portCall.result.port /\ q < portCall.start + portCall.max

\* C11: when every port of start .. start + max_attempts - 1 is occupied
\* (max_attempts = 0 included), find_available_port ends after at most
\* max_attempts probes by raising the RuntimeError that stands for
\* ResourceExhausted, and returns no port.
C11_ExhaustedRangeRaises ==
    LET r == portCall.result
        range == portCall.start..(portCall.start + portCall.max - 1)
    IN  (r # NoResult /\ \A p \in range \cap ValidPorts : p \in portCall.occupied)
            => /\ r.kind = "RuntimeError"
               /\ r.port = -1
               /\ Len(r.probed) <= portCall.max

C13_DeleteNotFound ==
    [][(/\ last'.op \in {"delete_workspace", "WorkspaceCommands.delete",
                          "WorkspaceCommands.force_delete"}
        /\ Root(last'.name) \notin fs)
          => /\ last'.error = "NotFound"
             /\ last'.cmds = <<>>
             /\ last'.removed = <<>>
             /\ fs' = fs]_vars

\* C14: a failure while linking or copying the kanban directory does not
\* abort a build: the build still succeeds, returns the workspace, and
\* leaves its directory in place (nothing is rolled back), for
\* create_workspace, create_story_workspace and WorkspaceCommands.create.
C14_KanbanFailureTolerated ==
    (/\ last.op \in {"create_workspace", "create_story_workspace",
                      "WorkspaceCommands.create"}
     /\ last.failed \in {"kanban", "kanban_mkdir", "kanban_copy"})
        => /\ last.error = "none"
           /\ last.removed = <<>>
           /\ Root(last.name) \in fs
           /\ WorkspaceSubdir(last.name) \in fs

\* C15: every workspace directory a build creates has a name matching
\* ^[a-zA-Z0-9_-]+$, and a build given a name outside the pattern is
\* rejected with an invalid-name error before it creates any directory.
C15_NamesFilesystemSafe ==
    /\ \A ws \in Entries(fs) : MatchesNamePattern(ws)
    /\ (/\ last.op \in {"create_workspace", "create_story_workspace",
                          "WorkspaceCommands.create"}
        /\ ~MatchesNamePattern(last.name))
          => last.error \in {"InvalidName", "ValueError", "ValidationError"}

\* C16: a build in a template directory that lacks one of the three
\* required template files fails with TemplateRenderError; a build that
\* returns successfully has all three rendered outputs in the workspace
\* tree.
C16_RequiredTemplateFiles ==
    (/\ last.op \in {"create_workspace", "create_story_workspace"}
     /\ last.error = "none")
        => /\ world.present = TemplateFileSet
           /\ \A t \in TemplateFileSet : OutputPath(last.name, t) \in fs

\* The host port numbers recorded in a descriptor's port map.
HostPorts(workspace) == {p[2] : p \in workspace.ports}

\* C17: two distinct workspaces that are both Running never have the same
\* host port number in the port maps that start recorded for them.
C17_PortNonCollision ==
    \A a \in fleet, b \in fleet :
        (/\ a.name # b.name
         /\ a.state = "Running"
         /\ b.state = "Running")
            => HostPorts(a) \cap HostPorts(b) = {}

\* C18: from the workspace state an entity is in, is_valid_transition and
\* get_valid_transitions allow exactly the documented transitions:
\* Created to Running, Running to Stopped, Stopped to Running, and each of
\* these three to Destroyed; none leaves Destroyed, none enters Created,
\* and Destroyed is one step from every other workspace state.
C18_WorkspaceTransitions ==
    LET from_state == walk[Len(walk)]
        stated == {<<"Created", "Running">>, <<"Running", "Stopped">>,
                   <<"Stopped", "Running">>, <<"Created", "Destroyed">>,
                   <<"Running", "Destroyed">>, <<"Stopped", "Destroyed">>}
        documented == {t[2] : t \in {d \in stated : d[1] = from_state}}
    IN  (walk # <<>> /\ from_state \in DOMAIN WORKSPACE_TRANSITIONS)
          => /\ get_valid_transitions(from_state) = documented
             /\ \A to_state \in StateClasses :
                   is_valid_transition(from_state, to_state)
                       <=> to_state \in documented
             /\ ~is_valid_transition(from_state, "Created")
             /\ from_state = "Destroyed"
                   => get_valid_transitions(from_state) = {}
             /\ from_state # "Destroyed"
                   => is_valid_transition(from_state, "Destroyed")
             /\ \A i \in 2..Len(walk) :
                   /\ walk[i - 1] # "Destroyed"
                   /\ walk[i] # "Created"

C18_Witness ==
    /\ Len(walk) = 5
    /\ walk = <<"Created", "Running", "Stopped", "Running", "Destroyed">>

\* C19: nothing reserves a workspace name: when two concurrent builds of
\* one name have both passed the existence check, the directory being
\* there stops neither mkdir, and both builds finish and report success
\* for the same directory.  (Only create_workspace's link or copy of an
\* existing kanban source can still raise, for the build that comes
\* second.)
C19_CreationRace ==
    \A i \in DOMAIN builds :
        LET passed == builds[i].error \notin {"AlreadyExists", "ValidationError"}
            collides == /\ builds[i].kind = "create_workspace"
                        /\ world.kanban # "none"
        IN  (builds[i].pc = "done" /\ passed)
              => /\ Root(RaceName) \in fs
                 /\ WorkspaceSubdir(RaceName) \in fs
                 /\ ~collides => builds[i].error = "none"

C19_Witness ==
    /\ DOMAIN builds = {1, 2}
    /\ \A i \in DOMAIN builds :
          /\ builds[i].pc = "done"
          /\ builds[i].error = "none"
          /\ builds[i].kind = "create_workspace"
    /\ Root(RaceName) \in fs

\* C20: a start or stop that returns a descriptor changes only ports (and
\* the state): name, path, template, story_name, repository, environment
\* and created_at of the result are those of the input, for
\* WorkspaceCommands.start and stop and for the functor commands.
C20_StartStopPreserveFields ==
    [][(/\ last'.op \in {"WorkspaceCommands.start", "WorkspaceCommands.stop",
                          "start_workspace_command", "stop_workspace_command"}
        /\ last'.error = "none")
          => /\ last'.ret.name = held.name
             /\ last'.ret.path = held.path
             /\ last'.ret.template = held.template
             /\ last'.ret.story_name = held.story_name
             /\ last'.ret.repository = held.repository
             /\ last'.ret.environment = held.environment
             /\ last'.ret.created_at = held.created_at]_vars

\* C21: a create_workspace that fails because the directory exists, the
\* template directory is missing (TemplateNotFound) or a port scan finds
\* no port (ResourceExhausted, the notebook port included) fails before
\* it has created any directory or file: the filesystem is unchanged.
C21_EarlyFailuresLeaveDisk ==
    [][(/\ last'.op = "create_workspace"
        /\ last'.failed \in {"exists", "template_dir", "ports"})
          => /\ fs' = fs
             /\ last'.ret = None
             /\ last'.failed = "exists" <=> last'.error = "AlreadyExists"
             /\ last'.failed = "template_dir"
                   <=> last'.error = "TemplateNotFound"
             /\ last'.failed = "ports"
                   <=> last'.error = "ResourceExhausted"]_vars

C21_Witness ==
    /\ last.op = "create_workspace"
    /\ last.error = "TemplateNotFound"
    /\ Root(last.name) \notin fs

\* C22: composition keeps the category laws on results: composing f with
\* the identity on either side gives f's result, both associations of
\* f, g, h give the same result on every input, and both carry the same
\* combined effects list.
C22_CategoryLaws ==
    (call # <<>> /\ call.done)
        => /\ call.left_identity = call.direct
           /\ call.right_identity = call.direct
           /\ call.left = call.right
           /\ call.left_effects = call.right_effects
           /\ call.left_effects
                 = call.f.effects \o call.g.effects \o call.h.effects

C22_Witness ==
    /\ call # <<>>
    /\ call.done
    /\ call.f.name = <<"f">>
    /\ call.g.name = <<"g">>
    /\ call.h.name = <<"h">>
    /\ call.x = 10
    /\ call.left = call.right
    /\ ~call.left.raised

\* C23: f.compose(g).compose(h) applied to x returns f(g(h(x))); for
\* f = add 1, g = multiply by 2, h = subtract 3 and x = 10 that is 15.
C23_CompositionOrder ==
    (call # <<>> /\ call.done)
        => LET hx == Call(call.h, call.x)
               ghx == IF hx.raised THEN hx ELSE Call(call.g, hx.v)
               fghx == IF ghx.raised THEN ghx ELSE Call(call.f, ghx.v)
           IN  /\ call.left = fghx
               /\ (/\ call.f.name = <<"f">>
                   /\ call.g.name = <<"g">>
                   /\ call.h.name = <<"h">>
                   /\ call.x = 10) => call.left = Returned(15)

\* C24: for each of the four functors, every wrapped entity e and all
\* transformations f, g: fmap(identity) wraps an entity equal to e, and
\* fmap of x -> g(f(x)) wraps an entity equal to the one that
\* fmap(f).fmap(g) wraps.
C24_FunctorLaws ==
    (call # <<>> /\ call.done)
        => /\ call.identity_mapped.entity = call.entity
           /\ call.direct_result.entity = call.functor_result.entity
           /\ call.direct_result.functor = call.functor
           /\ call.functor_result.functor = call.functor

C24_Witness ==
    /\ call # <<>>
    /\ call.done
    /\ call.functor = "StoryFunctor"
    /\ call.f = "set_assignee"
    /\ call.g = "add_tags"
    /\ call.direct_result.entity.assignee = Some(<<"alice">>)
    /\ call.direct_result.entity.tags = <<"urgent", "backend">>
    /\ call.functor_result.entity = call.direct_result.entity

\* C25: without a custom suffix and with a base_dir,
\* generate_story_workspace_name returns "{story}-ws-{n}" for the smallest
\* n >= 1 whose directory does not exist: the name of n is free, every
\* name of a smaller counter exists, and the search ends after at most
\* one more step than there are directories.
C25_SmallestFreeSuffix ==
    LET story == nameCall.story
        r == nameCall.result
        existing == nameCall.base.v
        auto == ~nameCall.custom.has \/ nameCall.custom.v = <<>>
    IN  (r # NoName /\ auto /\ nameCall.base.has)
          => /\ r.kind = "name"
             /\ \E n \in 1..(Cardinality(existing) + 1) :
                   /\ r.name = AutoName(story, n)
                   /\ AutoName(story, n) \notin existing
                   /\ \A k \in 1..(n - 1) : AutoName(story, k) \in existing

C25_Witness ==
    /\ nameCall.custom = None
    /\ nameCall.base.has
    /\ nameCall.story = <<"s">>
    /\ {AutoName(<<"s">>, 1), AutoName(<<"s">>, 2)} \subseteq nameCall.base.v
    /\ nameCall.result.kind = "name"
    /\ nameCall.result.name = AutoName(<<"s">>, 3)

\* C26: delete_workspace with force on a running workspace first attempts
\* the stop (docker compose down), then removes workspace/repo if it is
\* there, then removes the workspace directory; neither a failed stop nor
\* a failed or skipped repo cleanup keeps it from removing the directory,
\* and when the call returns normally the directory is gone.
C26_ForcedDeleteOrder ==
    [][(/\ last'.op = "delete_workspace"
        /\ last'.force
        /\ last'.running)
          => LET ws == last'.name
                 repo_removed == /\ RepoPath(ws) \in fs
                                 /\ last'.failed # "rmtree_repo"
             IN  /\ last'.cmds = <<"docker compose ps -q",
                                   "docker compose down">>
                 /\ last'.failed # "rmtree_root"
                       => /\ last'.error = "none"
                          /\ last'.removed =
                                IF repo_removed
                                THEN <<RepoPath(ws), Root(ws)>>
                                ELSE <<Root(ws)>>
                 /\ last'.failed = "rmtree_root"
                       => /\ last'.error = "DeleteFailed"
                          /\ Root(ws) \in fs'
                 /\ last'.error = "none"
                       => \A path \in fs' : path.ws # ws]_vars

C26_Witness ==
    /\ last.op = "delete_workspace"
    /\ last.force
    /\ last.running
    /\ last.error = "none"
    /\ last.name \in containers
    /\ last.removed = <<RepoPath(last.name), Root(last.name)>>
    /\ Root(last.name) \notin fs

\* C28: applying a transition (or transition_to) changes a value to
\* to_state only when the value is in the transition's from_state and the
\* pair is a valid transition; in any other case the call is rejected
\* with TransitionError.
C28_OnlyValidTransitions ==
    call.result # <<>>
        => LET transition == call.transition
               allowed ==
                   /\ call.phantom.state = transition.from_state
                   /\ is_valid_transition(transition.from_state,
                                          transition.to_state)
           IN  IF allowed
               THEN call.result[1] =
                        Returned(Phantom(call.phantom.value,
                                         transition.to_state))
               ELSE call.result[1].raised

\* C29: delete_workspace with force=False never removes the directory of
\* a workspace whose containers are up, whatever the status query
\* `docker compose ps -q` reports, a failed query included.
C29_UnforcedDeleteKeepsLiveWorkspace ==
    [][(/\ last'.op = "delete_workspace"
        /\ ~last'.force
        /\ last'.name \in containers)
          => /\ last'.removed = <<>>
             /\ Root(last'.name) \in fs
                   => Root(last'.name) \in fs']_vars

\* C27: update_docker_ports leaves a missing compose file alone; in an
\* existing one, a service named in the ports map that has a ports
\* section keeps every port mapping and every container port, with only
\* host sides replaced by the allocated port, and every other service and
\* every other key is unchanged.
C27_OnlyHostPortsRewritten ==
    call.result # <<>>
        => LET before == call.file
               after == call.result[1]
               ContainerSide(mapping) ==
                   LET fields == Split(mapping, <<>>)
                   IN  fields[Len(fields)]
               HostSide(mapping) ==
                   LET fields == Split(mapping, <<>>)
                   IN  IF Len(fields) > 1 THEN fields[Len(fields) - 1]
                       ELSE <<>>
               Rewritten(a, b, port) ==
                   /\ a.image = b.image
                   /\ a.ports.has
                   /\ Len(a.ports.v) = Len(b.ports.v)
                   /\ \A i \in 1..Len(b.ports.v) :
                         /\ ContainerSide(a.ports.v[i])
                               = ContainerSide(b.ports.v[i])
                         /\ \/ a.ports.v[i] = b.ports.v[i]
                            \/ HostSide(a.ports.v[i]) = Digits(port)
                   /\ b.ports.v # <<>>
                         => HostSide(a.ports.v[1]) = Digits(port)
           IN  /\ ~before.exists => after = before
               /\ before.exists =>
                     /\ after.exists
                     /\ after.config.other = before.config.other
                     /\ after.config.has_services
                           = before.config.has_services
                     /\ DOMAIN after.config.services
                           = DOMAIN before.config.services
                     /\ \A name \in DOMAIN before.config.services :
                           LET b == before.config.services[name]
                               a == after.config.services[name]
                               named == {kv \in call.ports : kv[1] = name}
                           IN  IF named # {} /\ b.ports.has
                               THEN \A kv \in named : Rewritten(a, b, kv[2])
                               ELSE a = b

\* C30: when two WorkspaceCommands.create of one name run concurrently,
\* the rollback of the build that fails removes no directory or file that
\* the other build created and returned successfully.
C30_RollbackSparesOtherBuild ==
    [][\A i, j \in DOMAIN builds :
          (/\ i # j
           /\ builds[i].pc = "rollback"
           /\ builds'[i].pc = "done"
           /\ builds[j].pc = "done"
           /\ builds[j].error = "none")
             => (builds[j].made \cap fs) \subseteq fs']_vars
====
